---- MODULE Spec2Model ----
(***************************************************************************)
(* Model of the BohemianServer dispatch engine: the domain trie, the route *)
(* tries, the LRU route cache, DomainHandler.find / handleRequest /        *)
(* executeMiddlewares / start, the body promise of RequestHandler and the  *)
(* response guards.                                                        *)
(*                                                                         *)
(* Strings are sequences of tokens; the separators the code splits on      *)
(* ("/", "?", "&", "=", ".", ":") are tokens of their own, so that split,  *)
(* filter and startsWith are computed the way the code computes them.      *)
(* Objects that the code shares by reference (RouterStructure entries,     *)
(* params objects, this.data.uses) live in heaps and are named by ids.     *)
(***************************************************************************)
EXTENDS Integers, Sequences, FiniteSets, TLC

VARIABLES
  data,        \* this.data of DomainHandler (host, uses, staticUrl, '404', cacheSize)
  domains,     \* DomainThree trie: reversed label path -> node
  entries,     \* heap of RouterStructure objects (the values of node.methods)
  routeCache,  \* LRUCache.cache, a Map kept in insertion order
  objs,        \* heap of params objects
  req,         \* RequestHandler per request
  resp,        \* ResponseHandler / ServerResponse per request
  pipe,        \* executeMiddlewares closure state per request
  srv,         \* position of the async server function of start() per request
  cpu,         \* request whose synchronous code is running (0: event loop idle)
  unhandled,   \* per request: a promise of the dispatch was rejected with no handler
  phase,       \* "config" until the server listens, then "serving"
  scn,         \* the application being served (its configuration and traffic)
  body,        \* RequestHandler._bodyPromise and the payload stream per request
  hist         \* the get/set calls made on an LRUCache used on its own

vars == <<data, domains, entries, routeCache, objs, req, resp, pipe, srv, cpu,
          unhandled, phase, scn, body, hist>>

(***************************************************************************)
(* Bounds                                                                  *)
(***************************************************************************)
MaxReq == 3

\* calls made on an LRUCache used on its own
MaxOps == 5

Requests == 1..MaxReq

(***************************************************************************)
(* String helpers (String.prototype.split, Array.prototype.filter(Boolean),*)
(* Array.prototype.reverse, decodeURIComponent)                            *)
(***************************************************************************)
RECURSIVE SplitFrom(_, _, _, _)
SplitFrom(s, sep, i, cur) ==
  IF i > Len(s) THEN <<cur>>
  ELSE IF s[i] = sep THEN <<cur>> \o SplitFrom(s, sep, i + 1, <<>>)
  ELSE SplitFrom(s, sep, i + 1, Append(cur, s[i]))

Split(s, sep) == SplitFrom(s, sep, 1, <<>>)

NonEmpty(p) == p # <<>>

FilterBoolean(parts) == SelectSeq(parts, NonEmpty)

Reverse(s) == [i \in 1..Len(s) |-> s[Len(s) + 1 - i]]

Prefixes(s) == {SubSeq(s, 1, i) : i \in 1..Len(s)}

\* decodeURIComponent on one token: a "%" escape that is not two hex digits
\* raises URIError, a well-formed escape is replaced by its character.
Malformed(tok) == tok \in {"%zz", "%"}

DecodeURIComponent(v) ==
  [i \in 1..Len(v) |-> IF v[i] = "%41" THEN "A" ELSE v[i]]

MalformedValue(v) == \E i \in 1..Len(v) : Malformed(v[i])

(***************************************************************************)
(* LRUCache (src/server/utils/LRUCache.ts).  The Map is a sequence of      *)
(* [key, val] in insertion order.                                          *)
(***************************************************************************)
CacheHas(cache, key) == \E i \in 1..Len(cache) : cache[i].key = key

CacheIndex(cache, key) == CHOOSE i \in 1..Len(cache) : cache[i].key = key

CacheValue(cache, key) == cache[CacheIndex(cache, key)].val

MapDelete(cache, key) == SelectSeq(cache, LAMBDA e : e.key # key)

\* Map.prototype.set: an existing key keeps its position, a new key goes last.
MapSet(cache, key, val) ==
  IF CacheHas(cache, key)
  THEN [i \in 1..Len(cache) |->
          IF cache[i].key = key THEN [key |-> key, val |-> val] ELSE cache[i]]
  ELSE Append(cache, [key |-> key, val |-> val])

\* LRUCache.get: the Map after the call (the hit is moved to the end).
LRUGet(cache, key) ==
  IF ~CacheHas(cache, key) THEN cache
  ELSE MapSet(MapDelete(cache, key), key, CacheValue(cache, key))

\* a set that never removes an entry
LRUSetNoEviction(cache, maxSize, key, val) == MapSet(cache, key, val)

\* LRUCache.set
LRUSet(cache, maxSize, key, val) ==
  LET c1 == IF Len(cache) >= maxSize /\ Len(cache) > 0
            THEN MapDelete(cache, cache[1].key)
            ELSE cache
  IN MapSet(c1, key, val)

(***************************************************************************)
(* Tries (src/server/nodes/RouterNode.ts).  A trie is a function from the  *)
(* path of child keys leading to a node to that node; the root is <<>>.    *)
(***************************************************************************)
Star == <<"*">>

NoMethods == [m \in {} |-> 0]

RouteNode == [paramName |-> <<>>, methods |-> NoMethods]

NewRouteTrie == (<<>> :> RouteNode)

OwnUses(arr) == [alias |-> FALSE, arr |-> arr]

DataUses == [alias |-> TRUE, arr |-> <<>>]

DomainThree ==
  [routes |-> NewRouteTrie, uses |-> OwnUses(<<>>), staticUrl |-> <<>>, nf |-> ""]

HasChild(trie, p, key) == Append(p, key) \in DOMAIN trie

\* the loop "if (!node.children.has(k)) node.children.set(k, new Node())"
EnsurePath(trie, keys, fresh) ==
  [p \in DOMAIN trie \cup Prefixes(keys) |->
     IF p \in DOMAIN trie THEN trie[p] ELSE fresh]

(***************************************************************************)
(* RouterHandler (add, create, normalizePath)                              *)
(***************************************************************************)
IsParam(segment) == Head(segment) = ":"

RouteKeys(segments) ==
  [i \in 1..Len(segments) |-> IF IsParam(segments[i]) THEN Star ELSE segments[i]]

\* an add that keeps a single handler per node, whatever its method
AddRouteSingleHandler(trie, path, method, e) ==
  LET segments == FilterBoolean(Split(path, "/"))
      keys == RouteKeys(segments)
      t1 == EnsurePath(trie, keys, RouteNode)
      t2 == [p \in DOMAIN t1 |->
               IF p \in Prefixes(keys) /\ IsParam(segments[Len(p)])
               THEN [t1[p] EXCEPT !.paramName = Tail(segments[Len(p)])]
               ELSE t1[p]]
  IN [t2 EXCEPT ![keys].methods = [m \in {method} |-> e]]

\* RouterHandler.add: the route trie after adding entry e at path for method
AddRoute(trie, path, method, e) ==
  LET segments == FilterBoolean(Split(path, "/"))
      keys == RouteKeys(segments)
      t1 == EnsurePath(trie, keys, RouteNode)
      t2 == [p \in DOMAIN t1 |->
               IF p \in Prefixes(keys) /\ IsParam(segments[Len(p)])
               THEN [t1[p] EXCEPT !.paramName = Tail(segments[Len(p)])]
               ELSE t1[p]]
      old == t2[keys].methods
  IN [t2 EXCEPT ![keys].methods =
        [m \in DOMAIN old \cup {method} |-> IF m = method THEN e ELSE old[m]]]

(***************************************************************************)
(* Objects shared by reference                                             *)
(***************************************************************************)
EmptyMap == [k \in {} |-> <<>>]

MapPut(m, k, v) == [x \in DOMAIN m \cup {k} |-> IF x = k THEN v ELSE m[x]]

\* request r owns the object of "params = {}" in RequestHandler and the one
\* allocated by "const params = {}" in its call of find
OwnObj(r) == r

FindObj(r) == MaxReq + r

ObjIds == 1..(2 * MaxReq)

NewEntry(route) ==
  [path |-> route.path, method |-> route.method, callbacks |-> route.callbacks,
   params |-> 0]

(***************************************************************************)
(* DomainHandler: constructor, domain, route, findDomain                   *)
(***************************************************************************)
\* String.prototype.includes
Includes(s, sub) ==
  \E i \in 0..(Len(s) - Len(sub)) : SubSeq(s, i + 1, i + Len(sub)) = sub

\* a walk that tries the wildcard child before the child of the label
RECURSIVE FindDomainWildcardFirst(_, _, _, _)
FindDomainWildcardFirst(trie, segments, i, node) ==
  IF i > Len(segments) THEN [def |-> TRUE, node |-> node]
  ELSE IF HasChild(trie, node, Star)
       THEN FindDomainWildcardFirst(trie, segments, i + 1, Append(node, Star))
  ELSE IF HasChild(trie, node, segments[i])
       THEN FindDomainWildcardFirst(trie, segments, i + 1, Append(node, segments[i]))
  ELSE [def |-> FALSE, node |-> <<>>]

RECURSIVE FindDomainFrom(_, _, _, _)
FindDomainFrom(trie, segments, i, node) ==
  IF i > Len(segments) THEN [def |-> TRUE, node |-> node]
  ELSE IF HasChild(trie, node, segments[i])
       THEN FindDomainFrom(trie, segments, i + 1, Append(node, segments[i]))
  ELSE IF HasChild(trie, node, Star)
       THEN FindDomainFrom(trie, segments, i + 1, Append(node, Star))
  ELSE [def |-> FALSE, node |-> <<>>]

findDomain(trie, host) == FindDomainFrom(trie, Reverse(Split(host, ".")), 1, <<>>)

\* the state of the handler: st.data, st.domains, st.entries
\* DomainHandler.route -> getRouter().route(data) -> RouterHandler.add
route(st, r) ==
  LET node == findDomain(st.domains, st.data.host).node
      e == Len(st.entries) + 1
  IN [st EXCEPT !.entries = Append(@, NewEntry(r)),
                !.domains[node].routes = AddRoute(@, r.path, r.method, e)]

\* RouterHandler.normalizePath
RECURSIVE CollapseSlashes(_)
CollapseSlashes(p) ==
  IF Len(p) < 2 THEN p
  ELSE IF p[1] = "/" /\ p[2] = "/" THEN CollapseSlashes(Tail(p))
  ELSE <<p[1]>> \o CollapseSlashes(Tail(p))

normalizePath(path) ==
  LET c == CollapseSlashes(path)
      cleaned == IF Len(c) > 0 /\ c[Len(c)] = "/" THEN SubSeq(c, 1, Len(c) - 1) ELSE c
  IN IF Len(cleaned) > 0 /\ cleaned[1] = "/" THEN cleaned ELSE <<"/">> \o cleaned

\* DomainHandler.get/post/... -> RouterHandler.create
create(st, method, path, callbacks) ==
  route(st, [path |-> normalizePath(path), method |-> method, callbacks |-> callbacks])

\* DomainHandler.domain followed by router.route for each route of the
\* subdomain (constructor, lines 83-88)
QualifiedHost(st, host) ==
  IF Includes(host, st.data.host) THEN host ELSE host \o <<".">> \o st.data.host

RECURSIVE SubRoutes(_, _, _, _)
SubRoutes(st, node, routes, i) ==
  IF i > Len(routes) THEN st
  ELSE SubRoutes(
         [st EXCEPT !.entries = Append(@, NewEntry(routes[i])),
                    !.domains[node].routes =
                       AddRoute(@, routes[i].path, routes[i].method, Len(st.entries) + 1)],
         node, routes, i + 1)

domain(st, domian) ==
  LET host == QualifiedHost(st, domian.host)
      segments == Reverse(Split(host, "."))
      t1 == EnsurePath(st.domains, segments, DomainThree)
  IN [st EXCEPT !.domains =
        [t1 EXCEPT ![segments].nf = domian.nf,
                   ![segments].uses = OwnUses(domian.uses),
                   ![segments].staticUrl = domian.staticUrl]]

RECURSIVE RootRoutes(_, _, _)
RootRoutes(st, routes, i) ==
  IF i > Len(routes) THEN st ELSE RootRoutes(route(st, routes[i]), routes, i + 1)

RECURSIVE SubDomains(_, _, _)
SubDomains(st, doms, i) ==
  IF i > Len(doms) THEN st
  ELSE LET s1 == domain(st, doms[i])
           node == Reverse(Split(QualifiedHost(st, doms[i].host), "."))
       IN SubDomains(SubRoutes(s1, node, doms[i].routes, 1), doms, i + 1)

Localhost == <<"localhost">>

\* new LRUCache(data.cacheSize || 500)
DefaultCacheSize == 500

\* new DomainHandler(cfg)
Constructor(cfg) ==
  LET host == IF cfg.host = <<>> THEN Localhost ELSE cfg.host
      segments == Reverse(Split(host, "."))
      t1 == EnsurePath((<<>> :> DomainThree), segments, DomainThree)
      st0 == [data |-> [host |-> host, uses |-> cfg.uses, staticUrl |-> cfg.staticUrl,
                        nf |-> cfg.nf,
                        cacheSize |-> IF cfg.cacheSize = 0 THEN DefaultCacheSize
                                     ELSE cfg.cacheSize],
              domains |-> [t1 EXCEPT ![segments].uses = DataUses,
                                     ![segments].staticUrl = cfg.staticUrl,
                                     ![segments].nf = cfg.nf],
              entries |-> <<>>]
  IN SubDomains(RootRoutes(st0, cfg.routes, 1), cfg.domains, 1)

\* the array a node's uses field refers to
UsesOf(d, u) == IF u.alias THEN d.uses ELSE u.arr

(***************************************************************************)
(* DomainHandler.find                                                      *)
(***************************************************************************)
\* a key that leaves the method out
CacheKeyNoMethod(host, path, method) == host \o <<"-">> \o path

\* the template string `${host}-${path}-${method}`
CacheKey(host, path, method) == host \o <<"-">> \o path \o <<"-">> \o <<method>>

\* the forEach over querys.split('&'): params after pair i, or a URIError
RECURSIVE QueryParams(_, _, _)
QueryParams(pairs, i, acc) ==
  IF i > Len(pairs) \/ acc.threw THEN acc
  ELSE LET kv == Split(pairs[i], "=")
           key == kv[1]
           hasValue == Len(kv) >= 2 /\ kv[2] # <<>>
       IN IF key # <<>> /\ hasValue
          THEN IF MalformedValue(kv[2])
               THEN [threw |-> TRUE, params |-> acc.params]
               ELSE QueryParams(pairs, i + 1,
                      [threw |-> FALSE,
                       params |-> MapPut(acc.params, key, DecodeURIComponent(kv[2]))])
          ELSE QueryParams(pairs, i + 1, acc)

\* the loop over the path segments (lines 489-502)
RECURSIVE WalkSegments(_, _, _, _, _)
WalkSegments(trie, segments, i, node, params) ==
  IF i > Len(segments) THEN [ok |-> TRUE, node |-> node, params |-> params]
  ELSE IF HasChild(trie, node, segments[i])
       THEN WalkSegments(trie, segments, i + 1, Append(node, segments[i]), params)
  ELSE IF HasChild(trie, node, Star)
       THEN LET n == Append(node, Star)
            IN WalkSegments(trie, segments, i + 1, n,
                 IF trie[n].paramName # <<>>
                 THEN MapPut(params, trie[n].paramName, segments[i])
                 ELSE params)
  ELSE [ok |-> FALSE, node |-> node, params |-> params]

\* getCacheRoute: the record stored under the key (the caller tests CacheHas)
getCacheRoute(cache, host, path, method) ==
  CacheValue(cache, CacheKey(host, path, method))

\* cacheRoute: the record as stored (find forced to true) and the Map after
cacheRoute(cache, maxSize, host, path, method, rec) ==
  LET stored == [rec EXCEPT !.find = TRUE]
  IN [rec |-> stored,
      cache |-> LRUSet(cache, maxSize, CacheKey(host, path, method), stored)]

NoRecord ==
  [route |-> 0, uses |-> OwnUses(<<>>), staticUrl |-> <<>>, nf |-> "", find |-> FALSE]

\* what find gives back: def = FALSE stands for undefined, threw for an
\* exception leaving find, hit for an answer from the cache; cache is the
\* Map after the call, params the object built for a matched handler
Undefined(cache) ==
  [def |-> FALSE, threw |-> FALSE, hit |-> FALSE, rec |-> NoRecord,
   cache |-> cache, params |-> EmptyMap]

\* a find that also stores the records without a route
findCachingMisses(d, trie, cache, path, host, method) ==
  IF path = <<>> \/ host = <<>> \/ method = "" THEN Undefined(cache)
  ELSE IF CacheHas(cache, CacheKey(host, path, method))
  THEN [Undefined(LRUGet(cache, CacheKey(host, path, method))) EXCEPT
          !.def = TRUE, !.hit = TRUE,
          !.rec = getCacheRoute(cache, host, path, method)]
  ELSE LET dom == findDomain(trie, host) IN
  IF ~dom.def THEN Undefined(cache)
  ELSE LET node == trie[dom.node]
           rec0 == [route |-> 0, uses |-> node.uses, staticUrl |-> node.staticUrl,
                    nf |-> node.nf, find |-> FALSE]
           parts == Split(path, "?")
           basePath == parts[1]
           querys == IF Len(parts) >= 2 THEN parts[2] ELSE <<>>
           segments == FilterBoolean(Split(basePath, "/"))
           q == IF querys # <<>>
                THEN QueryParams(Split(querys, "&"), 1,
                                 [threw |-> FALSE, params |-> EmptyMap])
                ELSE [threw |-> FALSE, params |-> EmptyMap]
       IN IF q.threw THEN [Undefined(cache) EXCEPT !.threw = TRUE]
          ELSE LET w == WalkSegments(node.routes, segments, 1, <<>>, q.params) IN
               IF ~w.ok THEN [Undefined(LRUSet(cache, d.cacheSize, CacheKey(host, path, method), rec0))
                       EXCEPT !.def = TRUE, !.rec = rec0]
               ELSE IF method \in DOMAIN node.routes[w.node].methods
               THEN LET c == cacheRoute(cache, d.cacheSize, host, path, method,
                               [rec0 EXCEPT !.route = node.routes[w.node].methods[method]])
                    IN [Undefined(c.cache) EXCEPT !.def = TRUE, !.rec = c.rec,
                                                  !.params = w.params]
               ELSE [Undefined(LRUSet(cache, d.cacheSize, CacheKey(host, path, method), rec0))
                       EXCEPT !.def = TRUE, !.rec = rec0]

\* a find that returns undefined for a path without a handler for the method
findMethodMissUndefined(d, trie, cache, path, host, method) ==
  IF path = <<>> \/ host = <<>> \/ method = "" THEN Undefined(cache)
  ELSE IF CacheHas(cache, CacheKey(host, path, method))
  THEN [Undefined(LRUGet(cache, CacheKey(host, path, method))) EXCEPT
          !.def = TRUE, !.hit = TRUE,
          !.rec = getCacheRoute(cache, host, path, method)]
  ELSE LET dom == findDomain(trie, host) IN
  IF ~dom.def THEN Undefined(cache)
  ELSE LET node == trie[dom.node]
           rec0 == [route |-> 0, uses |-> node.uses, staticUrl |-> node.staticUrl,
                    nf |-> node.nf, find |-> FALSE]
           parts == Split(path, "?")
           basePath == parts[1]
           querys == IF Len(parts) >= 2 THEN parts[2] ELSE <<>>
           segments == FilterBoolean(Split(basePath, "/"))
           q == IF querys # <<>>
                THEN QueryParams(Split(querys, "&"), 1,
                                 [threw |-> FALSE, params |-> EmptyMap])
                ELSE [threw |-> FALSE, params |-> EmptyMap]
       IN IF q.threw THEN [Undefined(cache) EXCEPT !.threw = TRUE]
          ELSE LET w == WalkSegments(node.routes, segments, 1, <<>>, q.params) IN
               IF ~w.ok THEN [Undefined(cache) EXCEPT !.def = TRUE, !.rec = rec0]
               ELSE IF method \in DOMAIN node.routes[w.node].methods
               THEN LET c == cacheRoute(cache, d.cacheSize, host, path, method,
                               [rec0 EXCEPT !.route = node.routes[w.node].methods[method]])
                    IN [Undefined(c.cache) EXCEPT !.def = TRUE, !.rec = c.rec,
                                                  !.params = w.params]
               ELSE Undefined(cache)

find(d, trie, cache, path, host, method) ==
  IF path = <<>> \/ host = <<>> \/ method = "" THEN Undefined(cache)
  ELSE IF CacheHas(cache, CacheKey(host, path, method))
  THEN [Undefined(LRUGet(cache, CacheKey(host, path, method))) EXCEPT
          !.def = TRUE, !.hit = TRUE,
          !.rec = getCacheRoute(cache, host, path, method)]
  ELSE LET dom == findDomain(trie, host) IN
  IF ~dom.def THEN Undefined(cache)
  ELSE LET node == trie[dom.node]
           rec0 == [route |-> 0, uses |-> node.uses, staticUrl |-> node.staticUrl,
                    nf |-> node.nf, find |-> FALSE]
           parts == Split(path, "?")
           basePath == parts[1]
           querys == IF Len(parts) >= 2 THEN parts[2] ELSE <<>>
           segments == FilterBoolean(Split(basePath, "/"))
           q == IF querys # <<>>
                THEN QueryParams(Split(querys, "&"), 1,
                                 [threw |-> FALSE, params |-> EmptyMap])
                ELSE [threw |-> FALSE, params |-> EmptyMap]
       IN IF q.threw THEN [Undefined(cache) EXCEPT !.threw = TRUE]
          ELSE LET w == WalkSegments(node.routes, segments, 1, <<>>, q.params) IN
               IF ~w.ok THEN [Undefined(cache) EXCEPT !.def = TRUE, !.rec = rec0]
               ELSE IF method \in DOMAIN node.routes[w.node].methods
               THEN LET c == cacheRoute(cache, d.cacheSize, host, path, method,
                               [rec0 EXCEPT !.route = node.routes[w.node].methods[method]])
                    IN [Undefined(c.cache) EXCEPT !.def = TRUE, !.rec = c.rec,
                                                  !.params = w.params]
               ELSE [Undefined(cache) EXCEPT !.def = TRUE, !.rec = rec0]

(***************************************************************************)
(* ResponseHandler: status, send (both guarded by headersSent)             *)
(***************************************************************************)
NewResponse ==
  [statusCode |-> 200, headersSent |-> FALSE, body |-> "", ends |-> 0, headers |-> {},
   values |-> [n \in {} |-> <<>>]]

status(rs, code) == IF rs.headersSent THEN rs ELSE [rs EXCEPT !.statusCode = code]

header(rs, name) == IF rs.headersSent THEN rs ELSE [rs EXCEPT !.headers = @ \cup {name}]

\* header(name, value) where the value matters to a property
headerValue(rs, name, value) ==
  IF rs.headersSent THEN rs
  ELSE [rs EXCEPT !.headers = @ \cup {name},
                  !.values = [n \in DOMAIN @ \cup {name} |-> IF n = name THEN value ELSE @[n]]]

\* new URL(origin) for an origin given as scheme, "://", host labels and an
\* optional ":" port; anything else does not parse.  The port of the result
\* is empty when it is the default port of the scheme.
DefaultPort(scheme) ==
  CASE scheme = "http" -> "80" [] scheme = "https" -> "443" [] OTHER -> ""

Parses(origin) == Len(origin) >= 3 /\ origin[2] = "://"

URL(origin) ==
  LET rest == SubSeq(origin, 3, Len(origin))
      parts == Split(rest, ":")
      port == IF Len(parts) > 1 /\ parts[2] # <<>> /\ parts[2][1] # DefaultPort(origin[1])
              THEN parts[2] ELSE <<>>
  IN [protocol |-> <<origin[1], ":">>, hostname |-> parts[1], port |-> port]

AllowOrigin == "Access-Control-Allow-Origin"
AllowCredentials == "Access-Control-Allow-Credentials"

enablePublicCors(rs) ==
  headerValue(
    header(header(headerValue(rs, AllowOrigin, <<"*">>), "Access-Control-Allow-Methods"),
           "Access-Control-Allow-Headers"),
    AllowCredentials, <<"false">>)

\* an enableCors that echoes whatever origin the request names
enableCorsAnyOrigin(rs, requestOrigin, doamins, extraDomains) ==
  IF requestOrigin = <<>> THEN enablePublicCors(rs)
  ELSE headerValue(
         header(header(headerValue(rs, AllowOrigin, requestOrigin),
                       "Access-Control-Allow-Methods"),
                "Access-Control-Allow-Headers"),
         AllowCredentials, <<"true">>)

\* enableCors of a handler built for a request with the Origin header
\* requestOrigin (<<>>: none) and the allowed domains doamins
enableCors(rs, requestOrigin, doamins, extraDomains) ==
  IF requestOrigin = <<>> THEN enablePublicCors(rs)
  ELSE IF ~Parses(requestOrigin) THEN enablePublicCors(rs)
  ELSE LET url == URL(requestOrigin)
           domainWithPort ==
             url.hostname \o (IF url.port # <<>> THEN <<":">> \o url.port ELSE <<>>)
           fullDomain == <<requestOrigin[1], "://">> \o domainWithPort
           allowedDomains == doamins \cup extraDomains
       IN IF \/ domainWithPort \in allowedDomains
             \/ url.hostname \in allowedDomains
             \/ fullDomain \in allowedDomains
          THEN headerValue(
                 header(header(headerValue(rs, AllowOrigin, requestOrigin),
                               "Access-Control-Allow-Methods"),
                        "Access-Control-Allow-Headers"),
                 AllowCredentials, <<"true">>)
          ELSE enablePublicCors(rs)

\* a send that writes whether or not the headers were sent
sendUnguarded(rs, payload) ==
  [rs EXCEPT !.headersSent = TRUE, !.body = payload, !.ends = @ + 1,
             !.headers = @ \cup {"Content-Type"}]

\* send: the security headers and Content-Type are set, then response.end
send(rs, payload) ==
  IF rs.headersSent THEN rs
  ELSE [rs EXCEPT !.headersSent = TRUE, !.body = payload, !.ends = @ + 1,
                  !.headers = @ \cup {"Content-Type"}]

(***************************************************************************)
(* RequestHandler: the body promise.  A payload is a sequence of tokens;   *)
(* the quotes, braces, ":", ",", "&" and "=" are tokens of their own.  The *)
(* content types of the requests carry no boundary parameter.              *)
(***************************************************************************)
CJson == <<"application/json">>

CForm == <<"application/x-www-form-urlencoded">>

CMultipart == <<"multipart/form-data">>

CText == <<"text/plain">>

\* jsonString.replace(/'/g, '"')
ReplaceQuotes(t) == [i \in 1..Len(t) |-> IF t[i] = "'" THEN "\"" ELSE t[i]]

\* position of the first token tok of t at or after i (0: none)
IndexFrom(t, tok, i) ==
  IF \E j \in i..Len(t) : t[j] = tok
  THEN CHOOSE j \in i..Len(t) : t[j] = tok /\ \A k \in i..(j - 1) : t[k] # tok
  ELSE 0

\* JSON.parse of an object whose members are strings: the members from
\* position i on; ok = FALSE stands for a SyntaxError
RECURSIVE ParseMembers(_, _, _)
ParseMembers(t, i, acc) ==
  LET close == IndexFrom(t, "\"", i + 5)
      fail == [ok |-> FALSE, value |-> EmptyMap]
  IN IF i + 5 > Len(t) THEN fail
     ELSE IF ~(t[i] = "\"" /\ t[i + 1] # "\"" /\ t[i + 2] = "\"" /\ t[i + 3] = ":"
               /\ t[i + 4] = "\"") THEN fail
     ELSE IF close = 0 \/ close = Len(t) THEN fail
     ELSE LET m == MapPut(acc, <<t[i + 1]>>, SubSeq(t, i + 5, close - 1))
          IN IF t[close + 1] = "}"
             THEN IF close + 1 = Len(t) THEN [ok |-> TRUE, value |-> m] ELSE fail
             ELSE IF t[close + 1] = "," THEN ParseMembers(t, close + 2, m)
             ELSE fail

JSONParse(t) ==
  IF Len(t) < 2 \/ t[1] # "{" THEN [ok |-> FALSE, value |-> EmptyMap]
  ELSE IF t = <<"{", "}">> THEN [ok |-> TRUE, value |-> EmptyMap]
  ELSE ParseMembers(t, 2, EmptyMap)

\* querystring.unescape: a malformed escape is kept, "+" is a space
QsUnescape(v) ==
  [i \in 1..Len(v) |-> IF v[i] = "%41" THEN "A" ELSE IF v[i] = "+" THEN " " ELSE v[i]]

\* querystring.parse followed by String(value): a repeated key collects its
\* values in an array, which String joins with ","
RECURSIVE ParseForm(_, _, _)
ParseForm(pairs, i, acc) ==
  IF i > Len(pairs) THEN acc
  ELSE IF pairs[i] = <<>> THEN ParseForm(pairs, i + 1, acc)
  ELSE LET eq == IndexFrom(pairs[i], "=", 1)
           key == QsUnescape(IF eq = 0 THEN pairs[i] ELSE SubSeq(pairs[i], 1, eq - 1))
           val == QsUnescape(IF eq = 0 THEN <<>>
                             ELSE SubSeq(pairs[i], eq + 1, Len(pairs[i])))
       IN ParseForm(pairs, i + 1,
            MapPut(acc, key, IF key \in DOMAIN acc THEN acc[key] \o <<",">> \o val
                             ELSE val))

\* getBoundary: the boundary parameter of the content type (<<>>: none)
getBoundary(contentType) ==
  IF \E i \in 1..(Len(contentType) - 1) : contentType[i] = "boundary="
  THEN <<contentType[(CHOOSE i \in 1..(Len(contentType) - 1) :
                        contentType[i] = "boundary=") + 1]>>
  ELSE <<>>

\* processBody: ok = FALSE stands for the Error it throws
processBody(contentType, buffer) ==
  IF Includes(contentType, CJson) THEN JSONParse(ReplaceQuotes(buffer))
  ELSE IF Includes(contentType, CForm)
  THEN [ok |-> TRUE, value |-> ParseForm(Split(buffer, "&"), 1, EmptyMap)]
  ELSE IF Includes(contentType, CMultipart) /\ getBoundary(contentType) = <<>>
  THEN [ok |-> FALSE, value |-> EmptyMap]
  ELSE [ok |-> TRUE, value |-> (<<"data">> :> buffer)]

NoBody ==
  [st |-> "none", reads |-> 0, promise |-> 0, handled |-> FALSE, lost |-> FALSE,
   value |-> EmptyMap, got |-> {}, outs |-> {}, contentType |-> <<>>,
   payload |-> <<>>, aborts |-> FALSE]

\* getBodyContent: the listeners are registered and the stream is resumed;
\* the promise it returns is a new one
getBodyContent(b) ==
  [b EXCEPT !.st = "pending", !.reads = @ + 1, !.promise = @ + 1, !.handled = FALSE]

\* new RequestHandler(req): this._bodyPromise = this.getBodyContent()
RequestHandler(t) ==
  getBodyContent([NoBody EXCEPT !.contentType = t.contentType, !.payload = t.payload,
                                !.aborts = t.aborts])

\* a getter that reads the payload at each access
getBodyEachTime(b) ==
  LET b1 == getBodyContent(b) IN [b1 EXCEPT !.got = @ \cup {b1.promise}]

\* get body(): the promise stored by the constructor
getBody(b) == [b EXCEPT !.got = @ \cup {b.promise}]

\* the 'end' listener: no chunk gives {}, otherwise processBody decides;
\* the 'error' listener rejects.  A rejection no callback has subscribed to
\* is an unhandled rejection.
OnEnd(b) ==
  LET p == processBody(b.contentType, b.payload)
  IN IF b.payload = <<>> THEN [b EXCEPT !.st = "resolved", !.value = EmptyMap]
     ELSE IF p.ok THEN [b EXCEPT !.st = "resolved", !.value = p.value]
     ELSE [b EXCEPT !.st = "rejected", !.lost = ~b.handled]

OnError(b) == [b EXCEPT !.st = "rejected", !.lost = ~b.handled]

\* await request.body in a callback: the getter, then a subscription
AwaitBody(b) ==
  LET b1 == [getBody(b) EXCEPT !.handled = TRUE]
  IN IF b1.st = "pending" THEN b1
     ELSE [b1 EXCEPT !.outs = @ \cup {<<b1.st, b1.value>>}]

(***************************************************************************)
(* Callbacks.  A callback is user code; it is given by the sequence of the *)
(* operations it performs on (request, response, next):                    *)
(*   "next"  next() without awaiting the promise it returns                *)
(*   "anext" await next()                                                  *)
(*   "send"  response.send(<its name>)                                     *)
(*   "tick"  await of some I/O of its own                                  *)
(*   "throw" throw new Error(...)                                          *)
(*   "body"  try { await request.body } catch { status(400).send(...) }    *)
(*   "status" response.status(201), "header" response.header(<its name>)   *)
(*   "enableCors" response.enableCors(), "allow" enableCors(ExtraDomains)  *)
(*   "preflight" if (method === 'OPTIONS') return status(204).send('')     *)
(***************************************************************************)
\* a cors that hands over to its continuation before looking at the method
corsNextFirst == <<"enableCors", "next", "preflight">>

\* the cors middleware
cors == <<"enableCors", "preflight", "next">>

Script(cb) ==
  CASE cb = "A"   -> <<"next">>
    [] cb = "B"   -> <<"tick", "anext">>
    [] cb = "C"   -> <<"anext">>
    [] cb = "D"   -> <<"send", "next">>
    [] cb = "H"   -> <<"send">>
    [] cb = "H2"  -> <<"send">>
    [] cb = "H3"  -> <<"send">>
    [] cb = "N2"  -> <<"next", "next">>
    [] cb = "S"   -> <<>>
    [] cb = "MS"  -> <<"send", "next">>
    [] cb = "T"   -> <<"throw">>
    [] cb = "R"   -> <<"tick", "throw">>
    [] cb = "NF"  -> <<"send">>
    [] cb = "NFT" -> <<"throw">>
    [] cb = "E"   -> <<"body", "send">>
    [] cb = "E1"  -> <<"body", "next">>
    [] cb = "L"   -> <<"tick", "body", "send">>
    [] cb = "SH"  -> <<"send", "status", "header", "send">>
    [] cb = "CORS" -> cors
    [] cb = "HX"  -> <<"allow", "send">>
    [] OTHER      -> <<>>

\* an async function: it awaits
IsAsync(cb) == \E i \in 1..Len(Script(cb)) : Script(cb)[i] \in {"tick", "anext", "body"}

NextCallsIn(script) == Cardinality({i \in 1..Len(script) : script[i] \in {"next", "anext"}})

(***************************************************************************)
(* Applications: the configuration object given to server(), the calls     *)
(* made on the handler before it listens, the files under the static       *)
(* directories and the requests clients send.                              *)
(***************************************************************************)
NoConfig ==
  [host |-> <<>>, uses |-> <<>>, staticUrl |-> <<>>, nf |-> "", cacheSize |-> 0,
   routes |-> <<>>, domains |-> <<>>]

Rt(method, path, callbacks) == [method |-> method, path |-> path, callbacks |-> callbacks]

\* the client side: JSON.stringify of an object of strings and the encoding
\* of a form (new URLSearchParams(f).toString())
RECURSIVE Joined(_, _, _, _, _)
Joined(m, keys, open, mid, sep) ==
  IF keys = {} THEN <<>>
  ELSE LET k == CHOOSE x \in keys : TRUE
           rest == Joined(m, keys \ {k}, open, mid, sep)
       IN open \o k \o mid \o m[k] \o open
            \o (IF rest = <<>> THEN <<>> ELSE <<sep>> \o rest)

JSONStringify(obj) ==
  <<"{">> \o Joined(obj, DOMAIN obj, <<"\"">>, <<"\"", ":", "\"">>, ",") \o <<"}">>

FormEncode(f) == Joined(f, DOMAIN f, <<>>, <<"=">>, "&")

Rq(host, method, url) ==
  [host |-> host, method |-> method, url |-> url, contentType |-> <<>>,
   payload |-> <<>>, aborts |-> FALSE, origin |-> <<>>]

\* a request of a browser page of the given origin
From(origin, t) == [t EXCEPT !.origin = origin]

\* a POST with a payload; aborts: the client breaks the connection off
Post(host, url, contentType, payload, aborts) ==
  [host |-> host, method |-> "POST", url |-> url, contentType |-> contentType,
   payload |-> payload, aborts |-> aborts, origin |-> <<>>]

Sub(host, uses, routes) ==
  [host |-> host, uses |-> uses, staticUrl |-> <<>>, nf |-> "", routes |-> routes]

PUserId == <<"/", "user", "/", ":", "id">>
URoot == <<"/">>
UUser1 == <<"/", "user", "/", "1">>
UUser2 == <<"/", "user", "/", "2">>
UBadQuery == <<"/", "user", "/", "1", "?", "q", "=", "%zz">>
UA == <<"/", "a">>
UM == <<"/", "m">>
UNope == <<"/", "nope">>
HLocal == <<"localhost", ":", "3000">>
HApi == <<"api", ".", "localhost">>
HOther == <<"other", ".", "test">>
Pub == <<"pub">>
PAnyB == <<"/", ":", "p", "/", "b">>
UB == <<"/", "b">>
UEcho == <<"/", "echo">>
UQuery1 == <<"/", "user", "/", "1", "?", "a", "=", "%41", "&", "id", "=", "9">>
UQuery2 == <<"/", "user", "/", "2", "?", "b", "=", "2">>
\* a path of the root domain and a host of the wildcard subdomain for which
\* `${host}-${path}-${method}` is the same string
UDashed == <<"/", "x", ".", "localhost", "-", "/", "b">>
HDashed == <<"localhost", "-", "/", "x", ".", "localhost">>
HFoo == <<"foo", ".", "localhost">>
HB == <<"b", ".", "localhost">>
\* JSON.stringify({key: "value"}), JSON.stringify({name: "O'Brien"}), a
\* truncated document and a form
JBroken == <<"{", "\"", "key", "\"", ":">>
\* the objects and the form a client posts
ObjKeyValue == (<<"key">> :> <<"value">>)
ObjOBrien == (<<"name">> :> <<"O", "'", "Brien">>)
FormAB == (<<"a">> :> <<"1">>) @@ (<<"b">> :> <<"2">>)
PostedObjects == {ObjKeyValue, ObjOBrien}
PostedForms == {FormAB}
LRUKeys == {<<"a">>, <<"b">>, <<"c">>, <<"d">>}
IndexFile == <<Pub, <<"index.html">>>>

\* a file next to the static directory, and URLs of the static fallback
SecretFile == <<<<"secret.txt">>>>
UUpSecret == <<"/", "..", "/", "secret.txt">>
UIndexQuery == <<"/", "index.html", "?", "v", "=", "1">>
UCors == <<"/", "cors">>
HLocalApi == <<"localhost", ".", "api">>
PAYZ == <<"/", "a", "/", ":", "y", "/", "z">>
UA1 == <<"/", "a", "/", "1">>
UA2 == <<"/", "a", "/", "2">>
UA1Z == <<"/", "a", "/", "1", "/", "z">>
HDeep == <<"x", ".", "api", ".", "localhost">>
PAB == <<"/", "a", "/", "b">>
PAX == <<"/", "a", "/", ":", "x">>
UAC == <<"/", "a", "/", "c">>
UAStar == <<"/", "a", "/", "*">>
UX == <<"/", "x">>
DACom == <<"a", ".", "com">>
OACom == <<"http", "://", "a", ".", "com">>
OEvil == <<"https", "://", "evil", ".", "com">>
OXOrg == <<"http", "://", "x", ".", "org", ":", "8080">>
DXOrg == <<"x", ".", "org", ":", "8080">>
OSIo == <<"https", "://", "s", ".", "io">>
ONull == <<"null">>

\* the allowed domains the response handlers are built with, and the
\* extraDomains a callback passes to enableCors
Doamins(s) == IF s = "cors" THEN {DACom, OSIo} ELSE {}

ExtraDomains == {DXOrg}

Scenarios ==
  {"params", "evict", "exact", "order", "twice", "throw", "reject", "badquery",
   "notfound", "mw404", "mwsend", "errors", "setnf", "static", "sub",
   "wild", "lru", "query", "post", "lost", "mwstatic", "cors",
   "miss", "prefer", "sibling", "methods",
   "rename", "qualify", "multipart", "escape",
   "borrow", "mwfail"}

Config(s) ==
  CASE s = "evict" ->
         [NoConfig EXCEPT !.cacheSize = 1,
                          !.routes = <<Rt("GET", PUserId, <<"H">>)>>]
    [] s = "exact" ->
         [NoConfig EXCEPT !.cacheSize = 2,
                          !.routes = <<Rt("GET", URoot, <<"H">>), Rt("GET", UA, <<"H2">>),
                                       Rt("POST", UA, <<"H3">>)>>]
    [] s = "order" ->
         [NoConfig EXCEPT !.uses = <<"A", "B">>,
                          !.routes = <<Rt("GET", UM, <<"C", "D">>)>>]
    [] s = "twice" ->
         [NoConfig EXCEPT !.uses = <<"N2", "S">>,
                          !.routes = <<Rt("GET", UM, <<"C", "D">>)>>]
    [] s = "throw" ->
         [NoConfig EXCEPT !.uses = <<"A">>,
                          !.routes = <<Rt("GET", UM, <<"T", "H">>)>>]
    [] s = "reject" ->
         [NoConfig EXCEPT !.routes = <<Rt("GET", UM, <<"C", "R">>),
                                       Rt("GET", UA, <<"R", "H">>)>>]
    [] s = "notfound" ->
         [NoConfig EXCEPT !.routes = <<Rt("GET", URoot, <<"H">>)>>]
    [] s = "mwsend" ->
         [NoConfig EXCEPT !.uses = <<"MS">>]
    [] s = "errors" ->
         [NoConfig EXCEPT !.uses = <<"T">>, !.nf = "NFT"]
    [] s = "static" ->
         [NoConfig EXCEPT !.staticUrl = Pub, !.nf = "NF",
                          !.routes = <<Rt("GET", UA, <<"H">>)>>]
    [] s = "sub" ->
         [NoConfig EXCEPT !.nf = "NF",
                          !.domains = <<Sub(<<"api">>, <<>>, <<Rt("GET", UA, <<"H">>)>>)>>]
    [] s = "wild" ->
         [NoConfig EXCEPT !.uses = <<"A">>,
                          !.routes = <<Rt("GET", PAnyB, <<"H">>)>>,
                          !.domains = <<Sub(<<"*">>, <<"C">>, <<Rt("GET", UB, <<"H2">>)>>),
                                        Sub(<<"a", ".", "b">>, <<>>,
                                            <<Rt("GET", UB, <<"H3">>)>>)>>]
    [] s = "lru" -> [NoConfig EXCEPT !.cacheSize = 3]
    [] s = "post" ->
         [NoConfig EXCEPT !.routes = <<Rt("POST", UEcho, <<"E1", "E">>)>>]
    [] s = "lost" ->
         [NoConfig EXCEPT !.routes = <<Rt("POST", UA, <<"H">>),
                                       Rt("POST", UEcho, <<"L">>)>>]
    [] s = "multipart" ->
         [NoConfig EXCEPT !.routes = <<Rt("POST", UEcho, <<"E">>),
                                       Rt("POST", UA, <<"H">>)>>]
    [] s = "escape" ->
         [NoConfig EXCEPT !.staticUrl = Pub]
    [] s = "borrow" ->
         [NoConfig EXCEPT !.staticUrl = Pub,
                          !.domains = <<Sub(HApi, <<>>, <<Rt("GET", UB, <<"H">>)>>)>>]
    [] s = "mwfail" ->
         [NoConfig EXCEPT !.uses = <<"A", "R">>, !.nf = "NF",
                          !.domains = <<[Sub(HApi, <<"T">>, <<>>) EXCEPT !.nf = "NF"]>>]
    [] s = "mwstatic" ->
         [NoConfig EXCEPT !.uses = <<"MS">>, !.staticUrl = Pub, !.nf = "NF",
                          !.routes = <<Rt("GET", UA, <<"SH">>)>>]
    [] s = "cors" ->
         [NoConfig EXCEPT !.routes = <<Rt("GET", UX, <<"HX">>)>>]
    [] s = "prefer" ->
         [NoConfig EXCEPT !.routes = <<Rt("GET", PAB, <<"H">>), Rt("GET", PAX, <<"H2">>)>>]
    [] s = "sibling" ->
         [NoConfig EXCEPT !.routes = <<Rt("GET", UB, <<"H">>)>>,
                          !.domains = <<Sub(<<"*">>, <<"A">>, <<Rt("GET", UB, <<"H2">>)>>),
                                        Sub(<<"api">>, <<>>, <<Rt("GET", UB, <<"H3">>)>>)>>]
    [] s = "rename" ->
         [NoConfig EXCEPT !.routes = <<Rt("GET", PAX, <<"H">>), Rt("GET", PAYZ, <<"H2">>)>>]
    [] s = "qualify" ->
         [NoConfig EXCEPT !.domains = <<Sub(HApi, <<"A">>, <<Rt("GET", UB, <<"H2">>)>>),
                                        Sub(HLocalApi, <<"C">>,
                                            <<Rt("GET", UB, <<"H3">>)>>)>>]
    [] s = "miss" ->
         [NoConfig EXCEPT !.uses = <<"A">>, !.staticUrl = Pub, !.nf = "NF",
                          !.routes = <<Rt("GET", UA, <<"H">>)>>]
    [] OTHER -> NoConfig

Calls(s) ==
  CASE s = "params" -> <<[op |-> "get", method |-> "GET", path |-> PUserId,
                          callbacks |-> <<"H">>]>>
    [] s = "badquery" -> <<[op |-> "get", method |-> "GET", path |-> PUserId,
                            callbacks |-> <<"H">>]>>
    [] s = "mw404" -> <<[op |-> "use", callbacks |-> <<"A">>]>>
    [] s = "setnf" -> <<[op |-> "get", method |-> "GET", path |-> URoot,
                         callbacks |-> <<"H">>],
                        [op |-> "notFound", callback |-> "NF"]>>
    [] s = "query" -> <<[op |-> "get", method |-> "GET", path |-> PUserId,
                         callbacks |-> <<"H">>]>>
    [] s = "methods" -> <<[op |-> "get", method |-> "GET", path |-> UA,
                           callbacks |-> <<"H">>],
                          [op |-> "get", method |-> "POST", path |-> UA,
                           callbacks |-> <<"H2">>],
                          [op |-> "get", method |-> "GET", path |-> UB,
                           callbacks |-> <<"H3">>],
                          [op |-> "get", method |-> "GET", path |-> UA,
                           callbacks |-> <<"A", "H">>]>>
    [] s = "cors" -> <<[op |-> "use", callbacks |-> <<"CORS", "A">>],
                       [op |-> "get", method |-> "GET", path |-> UCors,
                        callbacks |-> <<"H">>]>>
    [] OTHER -> <<>>

Files(s) ==
  IF s \in {"static", "mwstatic", "miss", "borrow"} THEN {IndexFile}
  ELSE IF s = "escape" THEN {IndexFile, SecretFile}
  ELSE {}

Traffic(s) ==
  CASE s = "params" -> {Rq(HLocal, "GET", UUser1), Rq(HLocal, "GET", UUser2),
                        Rq(HLocal, "POST", UUser1)}
    [] s = "evict" -> {Rq(HLocal, "GET", UUser1), Rq(HLocal, "GET", UUser2)}
    [] s = "exact" -> {Rq(HLocal, "GET", URoot), Rq(HLocal, "GET", UA),
                       Rq(HLocal, "POST", UA), Rq(HLocal, "GET", UNope)}
    [] s = "order" -> {Rq(HLocal, "GET", UM)}
    [] s = "twice" -> {Rq(HLocal, "GET", UM)}
    [] s = "throw" -> {Rq(HLocal, "GET", UM)}
    [] s = "reject" -> {Rq(HLocal, "GET", UM), Rq(HLocal, "GET", UA)}
    [] s = "badquery" -> {Rq(HLocal, "GET", UBadQuery), Rq(HLocal, "GET", UUser1),
                          Rq(HLocal, "GET", UNope \o <<"?", "q", "=", "%zz">>)}
    [] s = "notfound" -> {Rq(HLocal, "GET", UNope), Rq(HLocal, "GET", URoot)}
    [] s = "mw404" -> {Rq(HLocal, "GET", UNope)}
    [] s = "mwsend" -> {Rq(HLocal, "GET", UNope)}
    [] s = "errors" -> {Rq(HLocal, "GET", UNope)}
    [] s = "setnf" -> {Rq(HLocal, "GET", UNope)}
    [] s = "static" -> {Rq(HLocal, "GET", URoot), Rq(HLocal, "GET", UNope),
                        Rq(HLocal, "GET", UA)}
    [] s = "sub" -> {Rq(HApi, "GET", UNope), Rq(HApi, "GET", UA),
                     Rq(HOther, "GET", UA)}
    [] s = "wild" -> {Rq(Localhost, "GET", UDashed), Rq(HDashed, "GET", UB),
                      Rq(HFoo, "GET", UB), Rq(HB, "GET", UB)}
    [] s = "query" -> {Rq(HLocal, "GET", UQuery1), Rq(HLocal, "GET", UQuery2)}
    [] s = "post" -> {Post(HLocal, UEcho, CJson, JSONStringify(ObjKeyValue), FALSE),
                      Post(HLocal, UEcho, CJson, JSONStringify(ObjOBrien), FALSE),
                      Post(HLocal, UEcho, CForm, FormEncode(FormAB), FALSE)}
    [] s = "multipart" -> {Post(HLocal, UEcho, CMultipart, FormEncode(FormAB), FALSE),
                           Post(HLocal, UEcho, CMultipart, <<>>, FALSE),
                           Post(HLocal, UA, CMultipart, <<>>, FALSE)}
    [] s = "escape" -> {Rq(HLocal, "GET", UUpSecret), Rq(HLocal, "GET", UIndexQuery),
                        Rq(HLocal, "GET", URoot)}
    [] s = "borrow" -> {Rq(HApi, "GET", URoot), Rq(HOther, "GET", URoot),
                        Rq(HLocal, "GET", URoot)}
    [] s = "mwfail" -> {Rq(HLocal, "GET", UNope), Rq(HApi, "GET", UNope)}
    [] s = "lost" -> {Post(HLocal, UA, CJson, JBroken, FALSE),
                      Post(HLocal, UEcho, CText, FormEncode(FormAB), TRUE),
                      Post(HLocal, UNope, CMultipart, FormEncode(FormAB), FALSE)}
    [] s = "mwstatic" -> {Rq(HLocal, "GET", URoot), Rq(HLocal, "GET", UNope),
                          Rq(HLocal, "GET", UA)}
    [] s = "prefer" -> {Rq(HLocal, "GET", PAB), Rq(HLocal, "GET", UAC),
                        Rq(HLocal, "GET", UAStar)}
    [] s = "sibling" -> {Rq(HApi, "GET", UB), Rq(HFoo, "GET", UB),
                         Rq(HOther, "GET", UB), Rq(HDeep, "GET", UB)}
    [] s = "methods" -> {Rq(HLocal, "GET", UA), Rq(HLocal, "POST", UA),
                         Rq(HLocal, "GET", UB)}
    [] s = "rename" -> {Rq(HLocal, "GET", UA1), Rq(HLocal, "GET", UA2),
                        Rq(HLocal, "GET", UA1Z)}
    [] s = "qualify" -> {Rq(HApi, "GET", UB), Rq(HLocalApi, "GET", UB),
                         Rq(HLocalApi \o <<".">> \o Localhost, "GET", UB)}
    [] s = "miss" -> {Rq(HLocal, "PUT", UA), Rq(HLocal, "PUT", UNope),
                      Rq(HLocal, "GET", UA)}
    [] s = "cors" -> {Rq(HLocal, "GET", UCors),
                      From(OACom, Rq(HLocal, "OPTIONS", UCors)),
                      From(OEvil, Rq(HLocal, "GET", UCors)),
                      From(OSIo, Rq(HLocal, "GET", UCors)),
                      From(OXOrg, Rq(HLocal, "GET", UX)),
                      From(ONull, Rq(HLocal, "GET", UX))}
    [] OTHER -> {}

(***************************************************************************)
(* Per-request state                                                       *)
(***************************************************************************)
NoRequest ==
  [host |-> <<>>, url |-> <<>>, method |-> "", params |-> 0, def |-> FALSE,
   hit |-> FALSE, rec |-> NoRecord, seen |-> EmptyMap, origin |-> <<>>]

NoPipe == [chain |-> <<>>, index |-> 0, cbs |-> <<>>, stack |-> <<>>, log |-> <<>>]

NoServer == [pc |-> "idle", nf |-> "", path |-> <<>>, served |-> FALSE, again |-> FALSE]

NewCallback == [st |-> "new", pc |-> 1, from |-> 0, waitOn |-> 0]

Max(S) == CHOOSE x \in S : \A y \in S : y <= x

(***************************************************************************)
(* DomainHandler.executeMiddlewares                                        *)
(***************************************************************************)
\* the route callbacks placed before the domain middleware
ChainRouteFirst(uses, callbacks) == callbacks \o uses

\* callbacks = [...uses, ...callbacks]
Chain(uses, callbacks) == uses \o callbacks

\* the body of next() once index < callbacks.length: callbacks[index++] is
\* invoked; from is the callback that called next (0: executeMiddlewares)
StartCallback(p, from) ==
  LET k == p.index + 1
  IN [p EXCEPT !.index = k,
               !.cbs[k] = [NewCallback EXCEPT !.st = "run", !.from = from],
               !.stack = Append(@, k),
               !.log = Append(@, <<"start", k>>)]

\* a next() that starts over with the first callback once the last was started
CallNextWrapping(p, from) ==
  IF Len(p.chain) = 0 THEN p
  ELSE StartCallback([p EXCEPT !.index = @ % Len(p.chain)], from)

\* next(): nothing once every callback was started
CallNext(p, from) == IF p.index >= Len(p.chain) THEN p ELSE StartCallback(p, from)

executeMiddlewares(callbacks, uses) ==
  LET chain == Chain(uses, callbacks)
  IN CallNext([NoPipe EXCEPT !.chain = chain,
                             !.cbs = [k \in 1..Len(chain) |-> NewCallback]], 0)

\* a callback that suspends or ends gives control back to the frame that
\* called next(); a frame that awaits that next() suspends in turn
Unwind(stack, cbs) ==
  LET running == {i \in 1..Len(stack) : cbs[stack[i]].st = "run"}
  IN IF running = {} THEN <<>> ELSE SubSeq(stack, 1, Max(running))

\* next() awaits every callback but the last, so the promise of next()
\* rejects when a callback that is not the last fails, and when the last one
\* throws before returning a promise; the rejection then fails the callback
\* that awaits this next()
RECURSIVE FailUp(_, _, _)
FailUp(chain, cbs, k) ==
  LET c1 == [cbs EXCEPT ![k].st = "fail"]
      rejectsNext == k < Len(chain) \/ ~IsAsync(chain[k])
      j == cbs[k].from
  IN IF rejectsNext /\ j > 0 /\ cbs[j].st = "anext" /\ cbs[j].waitOn = k
     THEN FailUp(chain, c1, j)
     ELSE c1

\* a next() that awaits no callback at all
SettledUnawaited(p, w) ==
  \/ w = 0
  \/ p.cbs[w].st \in {"tick", "anext", "body", "done", "fail"}

\* the promise of the next() call that started callback w is resolved
Settled(p, w) ==
  \/ w = 0
  \/ w = Len(p.chain) /\ p.cbs[w].st \in {"tick", "anext", "body", "done", "fail"}
  \/ w < Len(p.chain) /\ p.cbs[w].st = "done"

(***************************************************************************)
(* DomainHandler.start: the static fallback and the 404 part               *)
(***************************************************************************)
RECURSIVE NormalizeFrom(_, _, _)
NormalizeFrom(segs, i, acc) ==
  IF i > Len(segs) THEN acc
  ELSE IF segs[i] = <<".">> THEN NormalizeFrom(segs, i + 1, acc)
  ELSE IF segs[i] = <<"..">> /\ Len(acc) > 0 /\ acc[Len(acc)] # <<"..">>
       THEN NormalizeFrom(segs, i + 1, SubSeq(acc, 1, Len(acc) - 1))
  ELSE NormalizeFrom(segs, i + 1, Append(acc, segs[i]))

\* path.join(staticDir, url): the segments of the normalized path
Join(dir, url) ==
  NormalizeFrom(FilterBoolean(Split(dir, "/")) \o FilterBoolean(Split(url, "/")), 1, <<>>)

StaticDir(d, rq) == IF rq.def /\ rq.rec.staticUrl # <<>> THEN rq.rec.staticUrl ELSE d.staticUrl

FilePath(d, rq) ==
  Join(StaticDir(d, rq), IF rq.url = <<"/">> THEN <<"index.html">> ELSE rq.url)

\* the not-found handler is called with a next that does nothing
RECURSIVE RunNotFound(_, _, _, _)
RunNotFound(cb, i, rs, threw) ==
  IF threw \/ i > Len(Script(cb)) THEN [resp |-> rs, threw |-> threw]
  ELSE IF Script(cb)[i] = "send" THEN RunNotFound(cb, i + 1, send(rs, cb), FALSE)
  ELSE IF Script(cb)[i] = "throw" THEN RunNotFound(cb, i + 1, rs, TRUE)
  ELSE RunNotFound(cb, i + 1, rs, FALSE)

\* the bare answer sent without setting the status
NotFoundPartNoStatus(rq, rs) ==
  IF rq.def /\ rq.rec.nf # ""
  THEN LET n == RunNotFound(rq.rec.nf, 1, rs, FALSE)
       IN [resp |-> n.resp, threw |-> n.threw, nf |-> rq.rec.nf]
  ELSE [resp |-> send(rs, "Not Found"), threw |-> FALSE, nf |-> ""]

\* lines 184-190: route['404'] if the record has one, else 404 'Not Found'
NotFoundPart(rq, rs) ==
  IF rq.def /\ rq.rec.nf # ""
  THEN LET n == RunNotFound(rq.rec.nf, 1, rs, FALSE)
       IN [resp |-> n.resp, threw |-> n.threw, nf |-> rq.rec.nf]
  ELSE [resp |-> send(status(rs, 404), "Not Found"), threw |-> FALSE, nf |-> ""]

(***************************************************************************)
(* Initial state: new DomainHandler(Config(s))                             *)
(***************************************************************************)
Init ==
  \E s \in Scenarios :
    LET st == Constructor(Config(s))
    IN /\ scn = s
       /\ data = st.data
       /\ domains = st.domains
       /\ entries = st.entries
       /\ routeCache = <<>>
       /\ objs = [o \in ObjIds |-> EmptyMap]
       /\ req = [r \in Requests |-> NoRequest]
       /\ resp = [r \in Requests |-> NewResponse]
       /\ pipe = [r \in Requests |-> NoPipe]
       /\ srv = [r \in Requests |-> NoServer]
       /\ cpu = 0
       /\ unhandled = [r \in Requests |-> ""]
       /\ phase = [listening |-> FALSE, applied |-> 0]
       /\ body = [r \in Requests |-> NoBody]
       /\ hist = <<>>

(***************************************************************************)
(* Configuration calls made before the server listens                      *)
(***************************************************************************)
NextCall == Calls(scn)[phase.applied + 1]

CanCall(op) ==
  /\ ~phase.listening
  /\ phase.applied < Len(Calls(scn))
  /\ NextCall.op = op

\* app.get / app.post / ...
Get ==
  /\ CanCall("get")
  /\ LET st == create([data |-> data, domains |-> domains, entries |-> entries],
                      NextCall.method, NextCall.path, NextCall.callbacks)
     IN /\ domains' = st.domains
        /\ entries' = st.entries
  /\ phase' = [phase EXCEPT !.applied = @ + 1]
  /\ UNCHANGED <<data, routeCache, objs, req, resp, pipe, srv, cpu, unhandled, scn, body, hist>>

\* app.use(...callbacks): pushed onto this.data.uses
Use ==
  /\ CanCall("use")
  /\ data' = [data EXCEPT !.uses = @ \o NextCall.callbacks]
  /\ phase' = [phase EXCEPT !.applied = @ + 1]
  /\ UNCHANGED <<domains, entries, routeCache, objs, req, resp, pipe, srv, cpu,
                 unhandled, scn, body, hist>>

\* app.notFound(callback): this.data[404] = callback
NotFound ==
  /\ CanCall("notFound")
  /\ data' = [data EXCEPT !.nf = NextCall.callback]
  /\ phase' = [phase EXCEPT !.applied = @ + 1]
  /\ UNCHANGED <<domains, entries, routeCache, objs, req, resp, pipe, srv, cpu,
                 unhandled, scn, body, hist>>

\* app.listen / app.value
Listen ==
  /\ ~phase.listening
  /\ phase.applied = Len(Calls(scn))
  /\ phase' = [phase EXCEPT !.listening = TRUE]
  /\ UNCHANGED <<data, domains, entries, routeCache, objs, req, resp, pipe, srv, cpu,
                 unhandled, scn, body, hist>>

(***************************************************************************)
(* Serving                                                                 *)
(***************************************************************************)
\* a request without payload: the stream is at its end when it is resumed
\* and 'end' is emitted from process.nextTick, ahead of any I/O event
EndDue ==
  \E r \in Requests :
    body[r].st = "pending" /\ body[r].payload = <<>> /\ ~body[r].aborts

\* the server function of start() up to the return of handleRequest's
\* synchronous part: new RequestHandler, find, request.params,
\* executeMiddlewares up to the invocation of the first callback
Receive(r, t) ==
  /\ phase.listening
  /\ cpu = 0
  /\ ~EndDue
  /\ srv[r].pc = "idle"
  /\ r > 1 => srv[r - 1].pc # "idle"
  /\ LET host == Split(t.host, ":")[1]
         f == find(data, domains, routeCache, t.url, host, t.method)
         found == f.def /\ f.rec.route # 0
         cold == found /\ ~f.hit
         ents == IF cold THEN [entries EXCEPT ![f.rec.route].params = FindObj(r)]
                 ELSE entries
         heap == IF cold THEN [objs EXCEPT ![FindObj(r)] = f.params] ELSE objs
         par == IF found /\ f.rec.find THEN ents[f.rec.route].params ELSE OwnObj(r)
         uses == IF f.def THEN UsesOf(data, f.rec.uses) ELSE <<>>
         rq == [host |-> host, url |-> t.url, method |-> t.method, params |-> par,
                def |-> f.def, hit |-> f.hit, rec |-> f.rec, seen |-> heap[par],
                origin |-> t.origin]
     IN IF f.threw
        THEN /\ req' = [req EXCEPT ![r] = [rq EXCEPT !.params = OwnObj(r),
                                                     !.seen = EmptyMap]]
             /\ srv' = [srv EXCEPT ![r].pc = "crashed"]
             /\ unhandled' = [unhandled EXCEPT ![r] = "find"]
             /\ UNCHANGED <<entries, routeCache, objs, pipe, cpu>>
        ELSE /\ req' = [req EXCEPT ![r] = rq]
             /\ entries' = ents
             /\ objs' = heap
             /\ routeCache' = f.cache
             /\ pipe' = [pipe EXCEPT ![r] =
                           IF ~found THEN executeMiddlewares(<<>>, uses)
                           ELSE IF f.rec.find
                                THEN executeMiddlewares(ents[f.rec.route].callbacks, uses)
                                ELSE NoPipe]
             /\ srv' = [srv EXCEPT ![r].pc = "handle"]
             /\ cpu' = r
             /\ UNCHANGED unhandled
  /\ body' = [body EXCEPT ![r] = RequestHandler(t)]
  /\ UNCHANGED <<data, domains, resp, phase, scn, hist>>

\* the running callback of request r performs its next operation
Step(r) ==
  /\ cpu = r
  /\ pipe[r].stack # <<>>
  /\ LET p == pipe[r]
         k == p.stack[Len(p.stack)]
         c == p.cbs[k]
         cb == p.chain[k]
         op == IF c.pc > Len(Script(cb)) THEN "return" ELSE Script(cb)[c.pc]
         adv == [p EXCEPT !.cbs[k].pc = @ + 1]
         b1 == IF op = "body" THEN AwaitBody(body[r]) ELSE body[r]
         returns == op = "preflight" /\ req[r].method = "OPTIONS"
         p1 == CASE op = "next" -> CallNext(adv, k)
                 [] op = "anext" ->
                      CallNext([adv EXCEPT !.cbs[k].st = "anext",
                                           !.cbs[k].waitOn =
                                              IF p.index >= Len(p.chain) THEN 0
                                              ELSE p.index + 1], k)
                 [] op = "tick" -> [adv EXCEPT !.cbs[k].st = "tick"]
                 [] op = "throw" ->
                      [p EXCEPT !.cbs = FailUp(p.chain, p.cbs, k),
                                !.log = Append(@, <<"fail", k>>)]
                 [] op = "return" \/ returns \/ (op = "body" /\ b1.st = "rejected") ->
                      [p EXCEPT !.cbs[k].st = "done", !.log = Append(@, <<"end", k>>)]
                 [] op = "body" /\ b1.st = "pending" -> [p EXCEPT !.cbs[k].st = "body"]
                 [] OTHER -> adv
         p2 == [p1 EXCEPT !.stack = Unwind(p1.stack, p1.cbs)]
     IN /\ pipe' = [pipe EXCEPT ![r] = p2]
        /\ resp' = CASE op = "send" -> [resp EXCEPT ![r] = send(@, cb)]
                      [] op = "status" -> [resp EXCEPT ![r] = status(@, 201)]
                      [] op = "header" -> [resp EXCEPT ![r] = header(@, cb)]
                      [] op = "enableCors" ->
                           [resp EXCEPT ![r] = enableCors(@, req[r].origin, Doamins(scn), {})]
                      [] op = "allow" ->
                           [resp EXCEPT ![r] = enableCors(@, req[r].origin, Doamins(scn),
                                                          ExtraDomains)]
                      [] returns -> [resp EXCEPT ![r] = send(status(@, 204), "")]
                      [] op = "body" /\ b1.st = "rejected" ->
                           [resp EXCEPT ![r] = send(status(@, 400), "Invalid")]
                      [] OTHER -> resp
        /\ body' = [body EXCEPT ![r] = b1]
        /\ unhandled' = IF op = "throw" THEN [unhandled EXCEPT ![r] = "callback"]
                        ELSE unhandled
        /\ cpu' = IF p2.stack = <<>> /\ srv[r].pc # "handle" THEN 0 ELSE r
  /\ UNCHANGED <<data, domains, entries, routeCache, objs, req, srv, phase, scn, hist>>

\* a suspended callback of request r is resumed by the event loop
Resume(r, k) ==
  /\ cpu = 0
  /\ ~EndDue
  /\ k \in 1..Len(pipe[r].cbs)
  /\ \/ pipe[r].cbs[k].st = "tick"
     \/ pipe[r].cbs[k].st = "anext" /\ Settled(pipe[r], pipe[r].cbs[k].waitOn)
     \/ pipe[r].cbs[k].st = "body" /\ body[r].st # "pending"
  /\ pipe' = [pipe EXCEPT ![r].cbs[k].st = "run", ![r].stack = <<k>>]
  /\ cpu' = r
  /\ UNCHANGED <<data, domains, entries, routeCache, objs, req, resp, srv, unhandled,
                 phase, scn, body, hist>>

\* start(), lines 168-190, from the return of handleRequest to the first
\* await (response.file) or to the end of the function
Fallback(r) ==
  /\ cpu = r
  /\ srv[r].pc = "handle"
  /\ pipe[r].stack = <<>>
  /\ LET isFind == req[r].def /\ req[r].rec.find
         nf == NotFoundPart(req[r], resp[r])
     IN IF isFind
        THEN /\ srv' = [srv EXCEPT ![r].pc = "end"]
             /\ UNCHANGED <<resp, unhandled>>
        ELSE IF StaticDir(data, req[r]) # <<>>
        THEN /\ srv' = [srv EXCEPT ![r].pc = "file", ![r].path = FilePath(data, req[r])]
             /\ UNCHANGED <<resp, unhandled>>
        ELSE /\ srv' = [srv EXCEPT ![r].pc = IF nf.threw THEN "crashed" ELSE "end",
                                   ![r].nf = nf.nf]
             /\ resp' = [resp EXCEPT ![r] = nf.resp]
             /\ unhandled' = IF nf.threw THEN [unhandled EXCEPT ![r] = "notFound"]
                             ELSE unhandled
  /\ cpu' = 0
  /\ UNCHANGED <<data, domains, entries, routeCache, objs, req, pipe, phase, scn, body, hist>>

\* fs.readFile of response.file completes (ok: the file was read) and the
\* server function runs to its end; after a file that was read it calls
\* response.file a second time, without awaiting it
StaticRead(r, ok) ==
  /\ cpu = 0
  /\ ~EndDue
  /\ srv[r].pc = "file"
  /\ ok => srv[r].path \in Files(scn)
  /\ LET nf == NotFoundPart(req[r], resp[r])
     IN IF ok
        THEN /\ resp' = [resp EXCEPT ![r] = send(@, "file")]
             /\ srv' = [srv EXCEPT ![r].pc = "end", ![r].served = TRUE,
                                   ![r].again = TRUE]
             /\ UNCHANGED unhandled
        ELSE /\ srv' = [srv EXCEPT ![r].pc = IF nf.threw THEN "crashed" ELSE "end",
                                   ![r].nf = nf.nf]
             /\ resp' = [resp EXCEPT ![r] = nf.resp]
             /\ unhandled' = IF nf.threw THEN [unhandled EXCEPT ![r] = "notFound"]
                             ELSE unhandled
  /\ UNCHANGED <<data, domains, entries, routeCache, objs, req, pipe, cpu, phase, scn, body, hist>>

\* fs.readFile of the second response.file completes
StaticAgain(r, ok) ==
  /\ cpu = 0
  /\ ~EndDue
  /\ srv[r].again
  /\ ok => srv[r].path \in Files(scn)
  /\ srv' = [srv EXCEPT ![r].again = FALSE]
  /\ resp' = IF ok THEN [resp EXCEPT ![r] = send(@, "file")] ELSE resp
  /\ UNCHANGED <<data, domains, entries, routeCache, objs, req, pipe, cpu, unhandled,
                 phase, scn, body, hist>>

\* the payload stream of request r ends ('end'), or fails ('error') when
\* the client breaks off
BodyEnd(r) ==
  /\ cpu = 0
  /\ body[r].st = "pending"
  /\ body' = [body EXCEPT ![r] = IF @.aborts THEN OnError(@) ELSE OnEnd(@)]
  /\ UNCHANGED <<data, domains, entries, routeCache, objs, req, resp, pipe, srv, cpu,
                 unhandled, phase, scn, hist>>

(***************************************************************************)
(* An LRUCache used on its own (the example of its documentation)          *)
(***************************************************************************)
CacheSet(k) ==
  /\ scn = "lru"
  /\ phase.listening
  /\ Len(hist) < MaxOps
  /\ routeCache' = LRUSet(routeCache, data.cacheSize, k, Len(hist) + 1)
  /\ hist' = Append(hist, [op |-> "set", key |-> k, val |-> Len(hist) + 1,
                           before |-> routeCache])
  /\ UNCHANGED <<data, domains, entries, objs, req, resp, pipe, srv, cpu, unhandled,
                 phase, scn, body>>

CacheGet(k) ==
  /\ scn = "lru"
  /\ phase.listening
  /\ Len(hist) < MaxOps
  /\ routeCache' = LRUGet(routeCache, k)
  /\ hist' = Append(hist, [op |-> "get", key |-> k,
                           val |-> IF CacheHas(routeCache, k)
                                   THEN CacheValue(routeCache, k) ELSE 0,
                           before |-> routeCache])
  /\ UNCHANGED <<data, domains, entries, objs, req, resp, pipe, srv, cpu, unhandled,
                 phase, scn, body>>

Next ==
  \/ Get
  \/ Use
  \/ NotFound
  \/ Listen
  \/ \E r \in Requests : \E t \in Traffic(scn) : Receive(r, t)
  \/ \E r \in Requests : Step(r)
  \/ \E r \in Requests : \E k \in 1..Len(pipe[r].cbs) : Resume(r, k)
  \/ \E r \in Requests : Fallback(r)
  \/ \E r \in Requests : \E ok \in BOOLEAN : StaticRead(r, ok)
  \/ \E r \in Requests : \E ok \in BOOLEAN : StaticAgain(r, ok)
  \/ \E r \in Requests : BodyEnd(r)
  \/ \E k \in LRUKeys : CacheSet(k)
  \/ \E k \in LRUKeys : CacheGet(k)

Spec == Init /\ [][Next]_vars

(***************************************************************************)
(* Vocabulary of the properties                                            *)
(***************************************************************************)
Arrived(r) == srv[r].pc # "idle"

\* handleRequest found a route for r and ran its chain
Matched(r) == Arrived(r) /\ req[r].def /\ req[r].rec.route # 0

\* find gave a record without a route (or nothing) for r
Unmatched(r) == Arrived(r) /\ srv[r].pc # "crashed" /\ ~(req[r].def /\ req[r].rec.route # 0)

BasePath(url) == Split(url, "?")[1]

UrlSegments(r) == FilterBoolean(Split(BasePath(req[r].url), "/"))

RouteSegments(e) == FilterBoolean(Split(entries[e].path, "/"))

\* the names of the callbacks of r in the order they were started
RECURSIVE StartsOf(_, _)
StartsOf(chain, log) ==
  IF log = <<>> THEN <<>>
  ELSE IF Head(log)[1] = "start" THEN <<chain[Head(log)[2]]>> \o StartsOf(chain, Tail(log))
  ELSE StartsOf(chain, Tail(log))

Starts(r) == StartsOf(pipe[r].chain, pipe[r].log)

(***************************************************************************)
(* C1: for a request matched to a route with a parameter segment, the      *)
(* params map the request carries when its first callback is invoked binds *)
(* every parameter name to the segment of the request path at that         *)
(* position, on a cold and on a warm lookup alike.                         *)
(***************************************************************************)
C1_ParamsBound ==
  \A r \in Requests :
    Matched(r) =>
      \A i \in 1..Len(RouteSegments(req[r].rec.route)) :
        LET seg == RouteSegments(req[r].rec.route)[i] IN
        IsParam(seg) =>
          /\ Tail(seg) \in DOMAIN req[r].seen
          /\ req[r].seen[Tail(seg)] = UrlSegments(r)[i]

\* the domain node the host of r resolves to, and its chain for entry e
DomainOf(r) == findDomain(domains, req[r].host)

DomainUses(r) == UsesOf(data, domains[DomainOf(r).node].uses)

\* callback k of r has called next() so far
CalledNext(r, k) ==
  \E i \in 1..(pipe[r].cbs[k].pc - 1) :
    i <= Len(Script(pipe[r].chain[k])) /\ Script(pipe[r].chain[k])[i] \in {"next", "anext"}

Started(r, k) == k \in 1..Len(pipe[r].cbs) /\ pipe[r].cbs[k].st # "new"

\* nothing of r is running or suspended
Quiescent(r) ==
  /\ cpu # r
  /\ \A k \in 1..Len(pipe[r].cbs) : pipe[r].cbs[k].st \in {"new", "done", "fail"}

EveryCallsNextOnce(chain) == \A i \in 1..Len(chain) : NextCallsIn(Script(chain[i])) = 1

IsPrefix(a, b) == Len(a) <= Len(b) /\ a = SubSeq(b, 1, Len(a))

(***************************************************************************)
(* C2: the callbacks of a matched request start in the order domain        *)
(* middleware of the record it resolved to (registration order) then route *)
(* callbacks (definition order), whatever other requests are in flight;    *)
(* when every callback calls its continuation once, all of them are        *)
(* started.                                                                *)
(***************************************************************************)
C2_RegistrationOrder ==
  \A r \in Requests :
    Matched(r) =>
      LET expected == UsesOf(data, req[r].rec.uses) \o entries[req[r].rec.route].callbacks
      IN /\ IsPrefix(Starts(r), expected)
         /\ EveryCallsNextOnce(expected) /\ Quiescent(r) => Starts(r) = expected

\* two requests interleave: the later one has run its whole chain A, B, C, D
\* while the earlier one is still suspended in B
C2_Witness ==
  \E r1, r2 \in Requests :
    /\ r1 < r2
    /\ Starts(r1) = <<"A", "B">>
    /\ pipe[r1].cbs[2].st = "tick"
    /\ Starts(r2) = <<"A", "B", "C", "D">>
    /\ Quiescent(r2)

(***************************************************************************)
(* C3: in the chain of one request, callback k+1 is invoked only if        *)
(* callback k has invoked its continuation.                                *)
(***************************************************************************)
C3_NextGatesSuccessor ==
  \A r \in Requests :
    \A k \in 1..Len(pipe[r].cbs) :
      Started(r, k + 1) => CalledNext(r, k)

(***************************************************************************)
(* C4: when a callback of a matched request throws synchronously, no later *)
(* callback runs and the request is answered with status 500.              *)
(***************************************************************************)
ThrewSync(r, k) ==
  Started(r, k) /\ pipe[r].cbs[k].st = "fail" /\ ~IsAsync(pipe[r].chain[k])

C4_SyncThrowGives500 ==
  \A r \in Requests :
    \A k \in 1..Len(pipe[r].cbs) :
      Matched(r) /\ ThrewSync(r, k) /\ srv[r].pc = "end" =>
        /\ \A j \in (k + 1)..Len(pipe[r].cbs) : ~Started(r, j)
        /\ resp[r].headersSent
        /\ resp[r].statusCode = 500

(***************************************************************************)
(* C5: a rejection of an async callback never stays unhandled; it is       *)
(* turned into a 500 response.                                             *)
(***************************************************************************)
RejectedAsync(r, k) ==
  Started(r, k) /\ pipe[r].cbs[k].st = "fail" /\ IsAsync(pipe[r].chain[k])

C5_RejectionGives500 ==
  \A r \in Requests :
    \A k \in 1..Len(pipe[r].cbs) :
      Matched(r) /\ RejectedAsync(r, k) =>
        /\ unhandled[r] = ""
        /\ cpu = 0 => resp[r].headersSent /\ resp[r].statusCode = 500

(***************************************************************************)
(* C6: no error of a request escapes its dispatch: neither an error raised *)
(* while the request is resolved, nor an exception of a domain middleware  *)
(* run for an unmatched route, nor an exception of a not-found handler     *)
(* becomes an unhandled rejection.                                         *)
(***************************************************************************)
C6_ErrorsContained ==
  \A r \in Requests :
    /\ unhandled[r] \notin {"find", "notFound"}
    /\ Arrived(r) /\ ~Matched(r) => unhandled[r] = ""

(***************************************************************************)
(* C7: what a lookup returns (record and captured parameters) is what a    *)
(* lookup that traverses the tries returns, whatever was looked up before. *)
(***************************************************************************)
ColdLookup(r) == find(data, domains, <<>>, req[r].url, req[r].host, req[r].method)

C7_CacheTransparent ==
  \A r \in Requests :
    Arrived(r) /\ srv[r].pc # "crashed" =>
      /\ req[r].def = ColdLookup(r).def
      /\ req[r].rec = ColdLookup(r).rec
      /\ Matched(r) => req[r].seen = ColdLookup(r).params

(***************************************************************************)
(* C8: a request with the host, path and method of a registered route      *)
(* without parameter segments resolves to that route's handler chain, on a *)
(* cold and on a warm lookup.                                              *)
(***************************************************************************)
Registered(dn, e) ==
  LET keys == RouteKeys(RouteSegments(e))
      trie == domains[dn].routes
  IN /\ keys \in DOMAIN trie
     /\ entries[e].method \in DOMAIN trie[keys].methods
     /\ trie[keys].methods[entries[e].method] = e

ExactRoute(e) == \A i \in 1..Len(RouteSegments(e)) : ~IsParam(RouteSegments(e)[i])

RequestOf(r, dn, e) ==
  /\ Arrived(r)
  /\ srv[r].pc # "crashed"
  /\ Reverse(Split(req[r].host, ".")) = dn
  /\ req[r].url = entries[e].path
  /\ req[r].method = entries[e].method

BareDomainMiss(r) ==
  /\ Unmatched(r)
  /\ srv[r].pc = "end"
  /\ req[r].def
  /\ req[r].rec.staticUrl = <<>> /\ data.staticUrl = <<>>
  /\ req[r].rec.nf = "" /\ data.nf = ""

Sends(cb) == IF cb = "CORS" THEN {""} ELSE {cb}

NoRoute(r) == Arrived(r) /\ srv[r].pc = "end" /\ ~(req[r].def /\ req[r].rec.find)

DomainNotFound(r) == IF DomainOf(r).def THEN domains[DomainOf(r).node].nf ELSE ""

ExpectedNotFound(r) == IF DomainNotFound(r) # "" THEN DomainNotFound(r) ELSE data.nf

C10_FallbackOrder ==
  \A r \in Requests :
    NoRoute(r) =>
      /\ srv[r].served => srv[r].path \in Files(scn) /\ srv[r].nf = ""
      /\ ~srv[r].served => srv[r].nf = ExpectedNotFound(r)
      /\ ~srv[r].served /\ ExpectedNotFound(r) = "" => resp[r].headersSent

(***************************************************************************)
(* C11: domains are isolated.  The chain run for a request is made of the  *)
(* middleware of the domain node its host resolves to, followed, for a     *)
(* matched request, by the callbacks of a route registered on that very    *)
(* node; a host that resolves to no domain runs nothing.                   *)
(***************************************************************************)
Served(r) == Arrived(r) /\ srv[r].pc # "crashed"

C11_DomainsIsolated ==
  \A r \in Requests :
    Served(r) =>
      IF DomainOf(r).def
      THEN /\ Matched(r) => Registered(DomainOf(r).node, req[r].rec.route)
           /\ pipe[r].chain =
                DomainUses(r) \o (IF Matched(r) THEN entries[req[r].rec.route].callbacks
                                  ELSE <<>>)
      ELSE pipe[r].chain = <<>>

(***************************************************************************)
(* C12: when a wildcard subdomain is registered under a domain D, a host   *)
(* L.D whose single label L is not a registered subdomain of D resolves to *)
(* the wildcard's node and is matched against the wildcard's routes.       *)
(***************************************************************************)
\* the fully qualified hosts given to the constructor as subdomains
SubdomainHosts ==
  {QualifiedHost([data |-> data], Config(scn).domains[i].host) :
     i \in 1..Len(Config(scn).domains)}

\* the route a traversal of the route trie of domain node dn gives for r
RouteIn(dn, r) ==
  LET w == WalkSegments(domains[dn].routes, UrlSegments(r), 1, <<>>, EmptyMap)
  IN IF w.ok /\ req[r].method \in DOMAIN domains[dn].routes[w.node].methods
     THEN domains[dn].routes[w.node].methods[req[r].method]
     ELSE 0

\* the host of r is L.D, "*.D" is registered and L.D is not
UnderWildcard(r) ==
  LET labels == Split(req[r].host, ".")
  IN /\ Served(r)
     /\ Len(labels) >= 2
     /\ (<<"*", ".">> \o SubSeq(req[r].host, Len(labels[1]) + 2, Len(req[r].host)))
          \in SubdomainHosts
     /\ req[r].host \notin SubdomainHosts

WildcardNode(r) == Append(Reverse(Tail(Split(req[r].host, "."))), Star)

C12_WildcardCatchesUnregistered ==
  \A r \in Requests :
    UnderWildcard(r) =>
      /\ DomainOf(r) = [def |-> TRUE, node |-> WildcardNode(r)]
      /\ req[r].def
      /\ req[r].rec.uses = domains[WildcardNode(r)].uses
      /\ req[r].rec.route = RouteIn(WildcardNode(r), r)

(***************************************************************************)
(* C13: once the cache is full, the insertion of one further distinct key  *)
(* makes exactly the key with the oldest last access (get and set both     *)
(* count) unretrievable; every other key and the new one stay retrievable  *)
(* with the value last set.                                                *)
(***************************************************************************)
KeysOf(cache) == {cache[i].key : i \in 1..Len(cache)}

LastOp == hist[Len(hist)]

\* call i touched the entry of key x
Touches(i, x) ==
  hist[i].key = x /\ (hist[i].op = "set" \/ CacheHas(hist[i].before, x))

LastAccess(x, n) == Max({0} \cup {i \in 1..n : Touches(i, x)})

LastSet(x) == Max({i \in 1..Len(hist) : hist[i].op = "set" /\ hist[i].key = x})

\* the last call inserted a key that was absent into a full cache
InsertedIntoFull ==
  /\ hist # <<>>
  /\ LastOp.op = "set"
  /\ Len(LastOp.before) = data.cacheSize
  /\ LastOp.key \notin KeysOf(LastOp.before)

OldestAccessed ==
  CHOOSE x \in KeysOf(LastOp.before) :
    \A y \in KeysOf(LastOp.before) :
      LastAccess(x, Len(hist) - 1) <= LastAccess(y, Len(hist) - 1)

C13_EvictsOldestAccess ==
  InsertedIntoFull =>
    /\ KeysOf(routeCache) = (KeysOf(LastOp.before) \ {OldestAccessed}) \cup {LastOp.key}
    /\ \A x \in KeysOf(routeCache) : CacheValue(routeCache, x) = hist[LastSet(x)].val

(***************************************************************************)
(* C14: the route cache never holds more entries than its capacity (500    *)
(* when no cacheSize is configured), whatever get and set calls are made   *)
(* on it and whatever requests the dispatcher serves.                      *)
(***************************************************************************)
C14_CacheBounded ==
  /\ data.cacheSize >= 1
  /\ Len(routeCache) <= data.cacheSize
  /\ Cardinality(KeysOf(routeCache)) = Len(routeCache)

\* a distinct key was inserted into a full cache, which is full again
C14_Witness == InsertedIntoFull /\ Len(routeCache) = data.cacheSize

\* the dispatcher has replaced the only record of a cache of capacity 1
C14_DispatcherWitness ==
  \E r1, r2 \in Requests :
    /\ scn = "evict"
    /\ r1 < r2
    /\ Matched(r1) /\ Matched(r2)
    /\ req[r1].url # req[r2].url
    /\ KeysOf(routeCache) = {CacheKey(req[r2].host, req[r2].url, req[r2].method)}

(***************************************************************************)
(* C15: for a matched request with a query string, every key=value pair of *)
(* the query is in the params map the callbacks receive, with the value    *)
(* percent-decoded, next to the path parameters; for a query key that is   *)
(* also the name of a path parameter the value from the path is the one in *)
(* the map.                                                                *)
(***************************************************************************)
QueryPairs(r) ==
  LET parts == Split(req[r].url, "?")
  IN IF Len(parts) >= 2 THEN Split(parts[2], "&") ELSE <<>>

\* the positions of the route of r that declare parameter name
PathPositions(r, name) ==
  {i \in 1..Len(RouteSegments(req[r].rec.route)) :
     /\ IsParam(RouteSegments(req[r].rec.route)[i])
     /\ Tail(RouteSegments(req[r].rec.route)[i]) = name}

C15_QueryInParams ==
  \A r \in Requests :
    Matched(r) /\ Served(r) =>
      \A i \in 1..Len(QueryPairs(r)) :
        LET kv == Split(QueryPairs(r)[i], "=") IN
        Len(kv) = 2 /\ kv[1] # <<>> /\ kv[2] # <<>> =>
          /\ kv[1] \in DOMAIN req[r].seen
          /\ req[r].seen[kv[1]] =
               IF PathPositions(r, kv[1]) # {}
               THEN UrlSegments(r)[Max(PathPositions(r, kv[1]))]
               ELSE DecodeURIComponent(kv[2])

(***************************************************************************)
(* C16: the params object handed to the callbacks of a request belongs to  *)
(* that request alone: no two requests, successive or concurrent, cold or  *)
(* warm, receive the same object.                                          *)
(***************************************************************************)
C16_ParamsOwned ==
  \A r1, r2 \in Requests :
    r1 # r2 /\ Served(r1) /\ Served(r2) => req[r1].params # req[r2].params

(***************************************************************************)
(* C17: within one request the payload is read and decoded at most once,   *)
(* and every access to request.body, from any callback at any time, gives  *)
(* the same promise with the same outcome.                                 *)
(***************************************************************************)
C17_BodyReadOnce ==
  \A r \in Requests :
    /\ body[r].reads <= 1
    /\ Cardinality(body[r].got) <= 1
    /\ Cardinality(body[r].outs) <= 1

\* two callbacks of one request have awaited the body, the first one before
\* the payload had arrived, and both have seen it resolved
C17_Witness ==
  \E r \in Requests :
    /\ pipe[r].chain = <<"E1", "E">>
    /\ pipe[r].cbs[1].st = "done" /\ pipe[r].cbs[2].st = "done"
    /\ body[r].reads = 1
    /\ body[r].outs = {<<"resolved", ObjKeyValue>>}
    /\ resp[r].body = "E"

(***************************************************************************)
(* C18: a failure to decode the body (malformed JSON, multipart without    *)
(* boundary, stream error) reaches only the callbacks that await           *)
(* request.body; when no callback awaits it, it is no unhandled rejection. *)
(***************************************************************************)
C18_BodyFailureContained ==
  \A r \in Requests : ~body[r].lost

(***************************************************************************)
(* C19: decoding inverts encoding: the body of a request posting           *)
(* JSON.stringify(J) as application/json resolves to J, and the body of a  *)
(* request posting a form of key=value pairs as                            *)
(* application/x-www-form-urlencoded resolves to the map of those pairs.   *)
(***************************************************************************)
BodySettled(r) == body[r].st \in {"resolved", "rejected"}

C19_DecodeInvertsEncode ==
  \A r \in Requests :
    /\ \A obj \in PostedObjects :
         /\ BodySettled(r)
         /\ body[r].contentType = CJson
         /\ body[r].payload = JSONStringify(obj)
         => body[r].st = "resolved" /\ body[r].value = obj
    /\ \A f \in PostedForms :
         /\ BodySettled(r)
         /\ body[r].contentType = CForm
         /\ body[r].payload = FormEncode(f)
         => body[r].st = "resolved" /\ body[r].value = f

(***************************************************************************)
(* C20: once a response has been sent for a request, no later status(),    *)
(* header() or send() changes it: the status, the headers and the body     *)
(* stay as sent and at most one send takes effect, also when a domain      *)
(* middleware, the static fallback (which calls file() twice) and the 404  *)
(* part all try to respond.                                                *)
(***************************************************************************)
C20_SentIsFinal ==
  [][\A r \in Requests : resp[r].headersSent => resp'[r] = resp[r]]_vars

\* a domain middleware answered, then both file() calls of the static
\* fallback read the file and tried to send it
C20_Witness ==
  \E r \in Requests :
    /\ Starts(r) = <<"MS">>
    /\ srv[r].served /\ ~srv[r].again
    /\ resp[r].body = "MS"
    /\ resp[r].ends = 1

\* a callback called status() and header() after its send, and sent again
C20_CallbackWitness ==
  \E r \in Requests :
    /\ Starts(r) = <<"MS", "SH">>
    /\ pipe[r].cbs[2].st = "done"
    /\ resp[r] = send(NewResponse, "MS")

\* a domain middleware answered, the file was missing and the not-found
\* handler tried to respond
C20_NotFoundWitness ==
  \E r \in Requests :
    /\ Starts(r) = <<"MS">>
    /\ srv[r].nf = "NF"
    /\ resp[r] = send(NewResponse, "MS")

(***************************************************************************)
(* C21: once the cors middleware has run for a request, an OPTIONS request *)
(* is answered 204 with an empty body, cors has not invoked its            *)
(* continuation and no later callback of the chain has started; a request  *)
(* of any other method carries the CORS headers and cors has invoked its   *)
(* continuation exactly once.                                              *)
(***************************************************************************)
NextCalls(r, k) ==
  Cardinality({i \in 1..(pipe[r].cbs[k].pc - 1) :
                 /\ i <= Len(Script(pipe[r].chain[k]))
                 /\ Script(pipe[r].chain[k])[i] \in {"next", "anext"}})

CorsRan(r, k) ==
  k \in 1..Len(pipe[r].chain) /\ pipe[r].chain[k] = "CORS" /\ pipe[r].cbs[k].st = "done"

C21_CorsPreflight ==
  \A r \in Requests :
    \A k \in 1..Len(pipe[r].chain) :
      CorsRan(r, k) =>
        IF req[r].method = "OPTIONS"
        THEN /\ resp[r].headersSent
             /\ resp[r].statusCode = 204
             /\ resp[r].body = ""
             /\ NextCalls(r, k) = 0
             /\ \A j \in (k + 1)..Len(pipe[r].chain) : ~Started(r, j)
        ELSE /\ {AllowOrigin, AllowCredentials} \subseteq resp[r].headers
             /\ NextCalls(r, k) = 1

\* a pre-flight request was answered and left alone by the 404 part, and a
\* GET request went through cors to its route
C21_Witness ==
  \E r1, r2 \in Requests :
    /\ req[r1].method = "OPTIONS" /\ CorsRan(r1, 1) /\ srv[r1].pc = "end"
    /\ resp[r1].ends = 1
    /\ req[r2].method = "GET" /\ CorsRan(r2, 1) /\ srv[r2].pc = "end"
    /\ Starts(r2) = <<"CORS", "A", "H">>

(***************************************************************************)
(* C22: whenever enableCors has set the CORS headers of a response, the    *)
(* Access-Control-Allow-Origin value is the request's Origin, with         *)
(* credentials 'true', only if the hostname, the host:port or the          *)
(* scheme://host:port of the origin is among the allowed domains (those of *)
(* the handler plus the extraDomains given); for a missing, unparsable or  *)
(* non-allowed origin it is '*' with credentials 'false'; '*' never goes   *)
(* with credentials 'true'.                                                *)
(***************************************************************************)
\* a callback of r has called enableCors(ExtraDomains)
ExtrasGiven(r) ==
  \E k \in 1..Len(pipe[r].chain) :
    pipe[r].chain[k] = "HX" /\ pipe[r].cbs[k].pc > 1

AllowedSet(r) == Doamins(scn) \cup (IF ExtrasGiven(r) THEN ExtraDomains ELSE {})

\* the three spellings of an origin scheme://host[:port]
OriginForms(o) ==
  LET hostPort == SubSeq(o, 3, Len(o))
  IN {Split(hostPort, ":")[1], hostPort, o}

OriginAllowed(r) ==
  /\ req[r].origin # <<>>
  /\ Parses(req[r].origin)
  /\ OriginForms(req[r].origin) \cap AllowedSet(r) # {}

CorsApplied(r) == AllowOrigin \in DOMAIN resp[r].values

C22_OriginEchoedOnlyIfAllowed ==
  \A r \in Requests :
    CorsApplied(r) =>
      LET origin == resp[r].values[AllowOrigin]
          credentials == resp[r].values[AllowCredentials]
      IN /\ origin # <<"*">> =>
              origin = req[r].origin /\ credentials = <<"true">> /\ OriginAllowed(r)
         /\ ~OriginAllowed(r) => origin = <<"*">> /\ credentials = <<"false">>
         /\ ~(origin = <<"*">> /\ credentials = <<"true">>)

\* one origin was refused, one was echoed for the handler's domains and one
\* for the extraDomains of the route
C22_Witness ==
  \E r1, r2, r3 \in Requests :
    /\ \A r \in {r1, r2, r3} : CorsApplied(r)
    /\ req[r1].origin = OEvil /\ resp[r1].values[AllowOrigin] = <<"*">>
    /\ req[r2].origin = OSIo /\ resp[r2].values[AllowOrigin] = OSIo
    /\ req[r3].origin = OXOrg /\ resp[r3].values[AllowOrigin] = OXOrg
    /\ resp[r3].headersSent

(***************************************************************************)
(* C23: a request whose path leads to a node of the route trie of its      *)
(* domain that has no handler for the request's method is reported not     *)
(* found and no route callback runs for it; once answered it has the very  *)
(* response, callback log and not-found handler of any answered request to *)
(* the same host and method whose path leads to no node, when the static   *)
(* directory served a file for both or for neither.                        *)
(***************************************************************************)
WalkOf(r) ==
  WalkSegments(domains[DomainOf(r).node].routes, UrlSegments(r), 1, <<>>, EmptyMap)

MethodMiss(r) ==
  /\ Served(r) /\ DomainOf(r).def /\ WalkOf(r).ok
  /\ req[r].method \notin DOMAIN domains[DomainOf(r).node].routes[WalkOf(r).node].methods

PathMiss(r) == Served(r) /\ DomainOf(r).def /\ ~WalkOf(r).ok

Answered(r) == srv[r].pc = "end" /\ Quiescent(r) /\ ~srv[r].again

C23_MethodMissAsPathMiss ==
  \A r \in Requests :
    MethodMiss(r) =>
      /\ req[r].def /\ req[r].rec.route = 0 /\ ~req[r].rec.find
      /\ pipe[r].chain = DomainUses(r)
      /\ \A q \in Requests :
           /\ PathMiss(q) /\ req[q].host = req[r].host /\ req[q].method = req[r].method
           /\ Answered(q) /\ Answered(r) /\ srv[q].served = srv[r].served
           => /\ req[q].rec = req[r].rec
              /\ resp[q] = resp[r]
              /\ pipe[q].log = pipe[r].log
              /\ srv[q].nf = srv[r].nf

\* PUT /a (GET /a is registered) and PUT /nope were both answered by the
\* not-found handler after the middleware ran and no file was found
C23_Witness ==
  \E r, q \in Requests :
    /\ scn = "miss" /\ MethodMiss(r) /\ PathMiss(q)
    /\ req[r].url = UA /\ req[q].url = UNope
    /\ Answered(r) /\ Answered(q)
    /\ Starts(r) = <<"A">> /\ resp[r].body = "NF" /\ resp[q].body = "NF"

(***************************************************************************)
(* C24: when a set call found its key present and every later call is a    *)
(* set of a key that was absent right after it, that key leaves the cache  *)
(* only after every other entry that was present right after the call.     *)
(***************************************************************************)
\* the Map right after call i
AfterCall(i) == IF i < Len(hist) THEN hist[i + 1].before ELSE routeCache

SetOfPresent(i) == hist[i].op = "set" /\ hist[i].key \in KeysOf(hist[i].before)

OnlyInsertionsSince(i) ==
  \A j \in (i + 1)..Len(hist) :
    hist[j].op = "set" /\ hist[j].key \notin KeysOf(AfterCall(i))

C24_SetRefreshesRecency ==
  \A i \in 1..Len(hist) :
    SetOfPresent(i) /\ OnlyInsertionsSince(i) =>
      /\ hist[i].key \in KeysOf(AfterCall(i))
      /\ hist[i].key \notin KeysOf(routeCache) =>
           KeysOf(AfterCall(i)) \cap KeysOf(routeCache) = {}

(***************************************************************************)
(* C25: a set call removes at most one entry; it removes none when its key *)
(* was present or the cache was not full, and otherwise exactly the entry  *)
(* touched longest ago; the entries it keeps are retrievable with the      *)
(* value last set.                                                         *)
(***************************************************************************)
Removed == KeysOf(LastOp.before) \ KeysOf(routeCache)

C25_SetEvictsOnlyOnOverflow ==
  hist # <<>> /\ LastOp.op = "set" =>
    /\ Cardinality(Removed) <= 1
    /\ LastOp.key \in KeysOf(LastOp.before) \/ Len(LastOp.before) < data.cacheSize
         => Removed = {}
    /\ InsertedIntoFull => Removed = {OldestAccessed}
    /\ \A x \in KeysOf(routeCache) : CacheValue(routeCache, x) = hist[LastSet(x)].val

(***************************************************************************)
(* C26 as stated: once find has answered a request on a known domain with  *)
(* a record without a route, the route cache holds a not-found record      *)
(* under the key of the request.                                           *)
(***************************************************************************)
KeyOf(r) == CacheKey(req[r].host, req[r].url, req[r].method)

\* handleRequest of r has just got a record without a route from find
JustResolvedNotFound(r) ==
  srv[r].pc = "handle" /\ req[r].def /\ req[r].rec.route = 0

C27_LookupReadOnly ==
  [][\A r \in Requests :
       srv[r].pc = "idle" /\ srv'[r].pc # "idle" =>
         domains' = domains /\ entries' = entries]_vars

(***************************************************************************)
(* C28 as stated: in the chain of a request, callback k+1 starts only      *)
(* after callback k has completed.                                         *)
(***************************************************************************)
\* the position of an event in the log of r (0: it has not happened)
LogIndex(r, ev) ==
  Max({0} \cup {i \in 1..Len(pipe[r].log) : pipe[r].log[i] = ev})

C28_CompletesBeforeSuccessor ==
  \A r \in Requests :
    \A k \in 1..(Len(pipe[r].chain) - 1) :
      Started(r, k + 1) =>
        /\ LogIndex(r, <<"end", k>>) > 0
        /\ LogIndex(r, <<"end", k>>) < LogIndex(r, <<"start", k + 1>>)

(***************************************************************************)
(* C28 amended: a callback that awaited a next() call goes on only after   *)
(* the callback that call started has completed, unless that callback is   *)
(* the last of the chain, which is not awaited.                            *)
(***************************************************************************)
\* callback j of r awaited a next() call at some time and is past the await
PastAwait(r, j) ==
  /\ pipe[r].cbs[j].waitOn # 0
  /\ pipe[r].cbs[j].st \notin {"new", "anext"}

Completed(r, w) == pipe[r].cbs[w].st \in {"done", "fail"}

C28_AwaitedSuccessorCompleted ==
  \A r \in Requests :
    \A j \in 1..Len(pipe[r].chain) :
      PastAwait(r, j) /\ pipe[r].cbs[j].waitOn < Len(pipe[r].chain) =>
        Completed(r, pipe[r].cbs[j].waitOn)

\* B went on after C, which it awaited, had completed; and in another chain
\* a callback went on while the last callback, which it awaited, was pending
C28_Witness ==
  \E r \in Requests :
    /\ pipe[r].chain = <<"A", "B", "C", "D">>
    /\ PastAwait(r, 2) /\ pipe[r].cbs[2].st = "run" /\ Completed(r, 3)
    /\ PastAwait(r, 3)

C28_LastNotAwaitedWitness ==
  \E r \in Requests :
    \E j \in 1..Len(pipe[r].chain) :
      /\ PastAwait(r, j) /\ pipe[r].cbs[j].waitOn = Len(pipe[r].chain)
      /\ ~Completed(r, Len(pipe[r].chain))

(***************************************************************************)
(* C29: the route a request resolves to follows, at each depth, the child  *)
(* registered for the very segment of the request when there is one and    *)
(* binds nothing there, and otherwise the parameter child, whose name is   *)
(* bound to the segment; the path of a request on a known domain matches   *)
(* no node exactly when at some depth neither child exists.                *)
(***************************************************************************)
\* node has a child registered for the literal segment seg (the child under
\* "*" is the parameter child when it carries a parameter name)
ExactChild(trie, node, seg) ==
  /\ HasChild(trie, node, seg)
  /\ seg = Star => trie[Append(node, seg)].paramName = <<>>

ParamChild(trie, node) ==
  HasChild(trie, node, Star) /\ trie[Append(node, Star)].paramName # <<>>

\* the node the request reaches on the preferred path after i segments
RECURSIVE Preferred(_, _, _)
Preferred(trie, segs, i) ==
  IF i = 0 THEN [ok |-> TRUE, node |-> <<>>]
  ELSE LET before == Preferred(trie, segs, i - 1) IN
       IF ~before.ok THEN before
       ELSE IF ExactChild(trie, before.node, segs[i])
            THEN [ok |-> TRUE, node |-> Append(before.node, segs[i])]
       ELSE IF ParamChild(trie, before.node)
            THEN [ok |-> TRUE, node |-> Append(before.node, Star)]
       ELSE [ok |-> FALSE, node |-> before.node]

C29_ExactBeforeWildcard ==
  \A r \in Requests :
    Served(r) /\ DomainOf(r).def =>
      LET trie == domains[DomainOf(r).node].routes
          segs == UrlSegments(r)
          end == Preferred(trie, segs, Len(segs))
      IN /\ Matched(r) =>
              /\ end.ok
              /\ RouteKeys(RouteSegments(req[r].rec.route)) = end.node
              /\ \A i \in 1..Len(segs) :
                   LET seg == RouteSegments(req[r].rec.route)[i] IN
                   IF IsParam(seg)
                   THEN /\ Tail(seg) \in DOMAIN req[r].seen
                        /\ req[r].seen[Tail(seg)] = segs[i]
                   ELSE seg = segs[i]
              /\ Len(Split(req[r].url, "?")) = 1 =>
                   \A name \in DOMAIN req[r].seen :
                     \E i \in 1..Len(segs) :
                       RouteSegments(req[r].rec.route)[i] = <<":">> \o name
         /\ ~end.ok => ~Matched(r)
         /\ ~Matched(r) /\ req[r].def =>
              \/ ~end.ok
              \/ req[r].method \notin DOMAIN trie[end.node].methods

(***************************************************************************)
(* C30: a request that is not answered from the cache gets the record of   *)
(* the domain node reached from the root by taking, for each label of its  *)
(* host from the last to the first, the child of that label if there is    *)
(* one and otherwise the "*" child; it gets no record exactly when at some *)
(* label neither child exists; a host registered as a subdomain (or the    *)
(* server's own host) is matched against the routes of its own node, also  *)
(* when a "*" sibling exists.                                              *)
(***************************************************************************)
RECURSIVE PreferredDomain(_, _, _)
PreferredDomain(trie, labels, i) ==
  IF i = 0 THEN [ok |-> TRUE, node |-> <<>>]
  ELSE LET before == PreferredDomain(trie, labels, i - 1) IN
       IF ~before.ok THEN before
       ELSE IF HasChild(trie, before.node, labels[i])
            THEN [ok |-> TRUE, node |-> Append(before.node, labels[i])]
       ELSE IF HasChild(trie, before.node, Star)
            THEN [ok |-> TRUE, node |-> Append(before.node, Star)]
       ELSE [ok |-> FALSE, node |-> before.node]

HostLabels(r) == Reverse(Split(req[r].host, "."))

RegisteredHosts == SubdomainHosts \cup {IF data.host = <<>> THEN Localhost ELSE data.host}

ColdLookupOf(r) == Served(r) /\ ~req[r].hit

C30_ExactLabelBeforeWildcard ==
  \A r \in Requests :
    ColdLookupOf(r) =>
      LET end == PreferredDomain(domains, HostLabels(r), Len(HostLabels(r)))
      IN /\ req[r].def <=> end.ok
         /\ end.ok =>
              /\ req[r].rec.uses = domains[end.node].uses
              /\ req[r].rec.staticUrl = domains[end.node].staticUrl
              /\ req[r].rec.nf = domains[end.node].nf
              /\ req[r].rec.route = RouteIn(end.node, r)
         /\ req[r].host \in RegisteredHosts =>
              /\ req[r].def
              /\ req[r].rec.uses = domains[HostLabels(r)].uses
              /\ req[r].rec.route = RouteIn(HostLabels(r), r)

\* api.localhost got the route of its own node, foo.localhost the route of
\* the "*" sibling, and x.api.localhost and other.test no domain
C30_Witness ==
  \E r1, r2, r3 \in Requests :
    /\ scn = "sibling"
    /\ \A r \in {r1, r2, r3} : ColdLookupOf(r)
    /\ req[r1].host = HApi /\ Matched(r1) /\ entries[req[r1].rec.route].callbacks = <<"H3">>
    /\ req[r2].host = HFoo /\ Matched(r2) /\ entries[req[r2].rec.route].callbacks = <<"H2">>
    /\ req[r3].host = HDeep /\ ~req[r3].def

C30_NoDomainWitness ==
  \E r \in Requests : ColdLookupOf(r) /\ req[r].host = HOther /\ ~req[r].def

(***************************************************************************)
(* C31: a call get/post/... (path, M, chain) leaves the entry stored for    *)
(* every other method on that path and for every other path as it was;     *)
(* after it, a lookup of the path for each method registered on it gives   *)
(* the chain registered for that method, the new chain for M.              *)
(***************************************************************************)
\* the (node, method) slots of the route trie of the root domain
Slots(trie) == {<<p, m>> : p \in DOMAIN trie, m \in {"GET", "POST", "PUT", "OPTIONS"}}

Filled(trie, slot) == slot[1] \in DOMAIN trie /\ slot[2] \in DOMAIN trie[slot[1]].methods

RootRoutesOf(doms) == doms[findDomain(doms, Localhost).node].routes

\* the chain a lookup of (path, method) gives in the handler state (d, doms, ents)
LookupChain(d, doms, ents, path, method) ==
  LET f == find(d, doms, <<>>, path, Localhost, method)
  IN IF f.def /\ f.rec.route # 0 THEN ents[f.rec.route].callbacks ELSE <<>>

C31_RegistrationFrame ==
  [][CanCall("get") /\ phase' # phase =>
       LET path == normalizePath(NextCall.path)
           keys == RouteKeys(FilterBoolean(Split(path, "/")))
           old == RootRoutesOf(domains)
           new == RootRoutesOf(domains')
       IN /\ \A slot \in Slots(old) :
               Filled(old, slot) /\ slot # <<keys, NextCall.method>> =>
                 /\ Filled(new, slot)
                 /\ new[slot[1]].methods[slot[2]] = old[slot[1]].methods[slot[2]]
                 /\ entries'[new[slot[1]].methods[slot[2]]]
                      = entries[old[slot[1]].methods[slot[2]]]
          /\ \A slot \in Slots(new) :
               Filled(new, slot) /\ slot # <<keys, NextCall.method>> => Filled(old, slot)
          /\ LookupChain(data', domains', entries', path, NextCall.method)
               = NextCall.callbacks
          /\ \A m \in DOMAIN new[keys].methods :
               m # NextCall.method =>
                 LookupChain(data', domains', entries', path, m)
                   = LookupChain(data, domains, entries, path, m)]_vars

\* GET /a was registered again after POST /a and GET /b; requests resolve to
\* the new chain for GET /a and to the old ones for POST /a and GET /b
C31_Witness ==
  \E r1, r2, r3 \in Requests :
    /\ scn = "methods" /\ phase.applied = 4
    /\ Matched(r1) /\ req[r1].url = UA /\ req[r1].method = "GET"
    /\ entries[req[r1].rec.route].callbacks = <<"A", "H">>
    /\ Matched(r2) /\ req[r2].url = UA /\ req[r2].method = "POST"
    /\ entries[req[r2].rec.route].callbacks = <<"H2">>
    /\ Matched(r3) /\ req[r3].url = UB
    /\ entries[req[r3].rec.route].callbacks = <<"H3">>

(***************************************************************************)
(* C32: the parameter child of a node carries the name given by the last   *)
(* route registered through it; a request matched through that child has   *)
(* its segment bound under that name and under no other name, whichever    *)
(* route it resolves to.                                                   *)
(***************************************************************************)
\* the routes registered on the root domain so far, in registration order
RECURSIVE GetCalls(_, _)
GetCalls(calls, n) ==
  IF n = 0 THEN <<>>
  ELSE GetCalls(calls, n - 1) \o
         (IF calls[n].op = "get"
          THEN <<Rt(calls[n].method, normalizePath(calls[n].path), calls[n].callbacks)>>
          ELSE <<>>)

RegisteredRoutes == Config(scn).routes \o GetCalls(Calls(scn), phase.applied)

Through(rt, p) ==
  LET keys == RouteKeys(FilterBoolean(Split(rt.path, "/")))
  IN IsPrefix(p, keys)

\* the name the last route registered through parameter node p gives it
LastName(p) ==
  LET is == {i \in 1..Len(RegisteredRoutes) : Through(RegisteredRoutes[i], p)}
  IN Tail(FilterBoolean(Split(RegisteredRoutes[Max(is)].path, "/"))[Len(p)])

C32_LaterNameWins ==
  LET trie == RootRoutesOf(domains) IN
  /\ \A p \in DOMAIN trie :
       p # <<>> /\ p[Len(p)] = Star /\ trie[p].paramName # <<>> =>
         trie[p].paramName = LastName(p)
  /\ \A r \in Requests :
       Matched(r) /\ scn = "rename" =>
         LET keys == RouteKeys(RouteSegments(req[r].rec.route))
             depths == {i \in 1..Len(keys) : keys[i] = Star}
         IN /\ \A i \in depths :
                 /\ LastName(SubSeq(keys, 1, i)) \in DOMAIN req[r].seen
                 /\ req[r].seen[LastName(SubSeq(keys, 1, i))] = UrlSegments(r)[i]
            /\ DOMAIN req[r].seen = {LastName(SubSeq(keys, 1, i)) : i \in depths}

(***************************************************************************)
(* C33: every subdomain given to the server is a node of the domain trie   *)
(* under its host when the parent host forms the trailing labels of that   *)
(* host, and under host.parent otherwise; the node carries the uses, the   *)
(* static directory and the not-found handler given for the subdomain, and *)
(* a request for that fully qualified host that misses the cache gets them.*)
(***************************************************************************)
IsSuffix(a, b) == Len(a) <= Len(b) /\ a = SubSeq(b, Len(b) - Len(a) + 1, Len(b))

\* the labels of h end with the labels of the parent host
QualifiedWith(h, parent) ==
  h = parent \/ IsSuffix(<<".">> \o parent, h)

FullyQualified(h) ==
  IF QualifiedWith(h, data.host) THEN h ELSE h \o <<".">> \o data.host

\* the last subdomain of the configuration with that fully qualified host
LastGiven(i) ==
  \A j \in (i + 1)..Len(Config(scn).domains) :
    FullyQualified(Config(scn).domains[j].host) # FullyQualified(Config(scn).domains[i].host)

C33_SubdomainQualified ==
  \A i \in 1..Len(Config(scn).domains) :
    LET sub == Config(scn).domains[i]
        fq == FullyQualified(sub.host)
        node == Reverse(Split(fq, "."))
    IN LastGiven(i) =>
         /\ node \in DOMAIN domains
         /\ findDomain(domains, fq) = [def |-> TRUE, node |-> node]
         /\ domains[node].uses = OwnUses(sub.uses)
         /\ domains[node].staticUrl = sub.staticUrl
         /\ domains[node].nf = sub.nf
         /\ \A r \in Requests :
              ColdLookupOf(r) /\ req[r].host = fq =>
                /\ req[r].def
                /\ req[r].rec.uses = OwnUses(sub.uses)
                /\ req[r].rec.staticUrl = sub.staticUrl
                /\ req[r].rec.nf = sub.nf

(***************************************************************************)
(* C34: the payload of a request is read on demand: a read of the body has *)
(* been started only for a request one of whose callbacks has accessed     *)
(* request.body, and its decoding ends only after that access.             *)
(***************************************************************************)
Accessed(r) == body[r].got # {}

C34_BodyReadOnDemand ==
  \A r \in Requests :
    body[r].reads > 0 \/ BodySettled(r) => Accessed(r)

(***************************************************************************)
(* C35: the body of a request declared multipart/form-data without a       *)
(* boundary parameter never resolves: once its stream has ended, the body  *)
(* promise is rejected, whatever the payload was.                          *)
(***************************************************************************)
MultipartNoBoundary(r) ==
  /\ Includes(body[r].contentType, CMultipart)
  /\ getBoundary(body[r].contentType) = <<>>

C35_NoBoundaryRejects ==
  \A r \in Requests :
    MultipartNoBoundary(r) /\ BodySettled(r) => body[r].st = "rejected"

(***************************************************************************)
(* C36: in the chain of n callbacks of a request every callback is invoked *)
(* at most once and ends at most once, at most n invocations are made      *)
(* however often next() is called, a next() made once the last callback    *)
(* was started invokes nothing, and no callback goes past the end of its   *)
(* code: the work of the pipeline is bounded by the work of its callbacks. *)
(***************************************************************************)
Count(log, ev) == Cardinality({i \in 1..Len(log) : log[i] = ev})

Invocations(r) == Cardinality({i \in 1..Len(pipe[r].log) : pipe[r].log[i][1] = "start"})

C36_InvokedAtMostOnce ==
  \A r \in Requests :
    LET n == Len(pipe[r].chain)
    IN /\ pipe[r].index <= n
       /\ Invocations(r) <= n
       /\ Invocations(r) = pipe[r].index
       /\ \A k \in 1..n :
            /\ Count(pipe[r].log, <<"start", k>>) <= 1
            /\ Count(pipe[r].log, <<"end", k>>) + Count(pipe[r].log, <<"fail", k>>) <= 1
            /\ pipe[r].cbs[k].pc <= Len(Script(pipe[r].chain[k])) + 1

\* the last of four callbacks has called next(), after the first one called
\* it twice: five calls of next() in all, four invocations
C36_Witness ==
  \E r \in Requests :
    /\ Len(pipe[r].chain) = 4
    /\ NextCalls(r, 1) = 2
    /\ NextCalls(r, 4) = 1
    /\ Invocations(r) = 4
    /\ \A k \in 1..4 : pipe[r].cbs[k].st = "done"
    /\ pipe[r].stack = <<>>

(***************************************************************************)
(* C37: every file the static fallback reads, and so every file it serves, *)
(* lies inside the static directory resolved for the request.              *)
(***************************************************************************)
InsideDir(dir, path) ==
  LET d == Join(dir, <<>>)
  IN Len(path) > Len(d) /\ SubSeq(path, 1, Len(d)) = d

ReadsFile(r) == srv[r].pc = "file" \/ srv[r].again \/ srv[r].served

C37_ReadsInsideStaticDir ==
  \A r \in Requests :
    ReadsFile(r) => InsideDir(StaticDir(data, req[r]), srv[r].path)

(***************************************************************************)
(* C38: the static fallback reads a file only for a request whose host     *)
(* resolves to a domain that has a static directory of its own; a request  *)
(* for a domain without one, or for no registered domain, is served no     *)
(* file of another domain, the root domain included.                       *)
(***************************************************************************)
OwnStaticDir(r) == req[r].def /\ req[r].rec.staticUrl # <<>>

C38_NoForeignStaticDir ==
  \A r \in Requests : ReadsFile(r) => OwnStaticDir(r)

(***************************************************************************)
(* C39: a request that matches no route has received a response by the     *)
(* time its server function and the file reads it started are over,        *)
(* whatever the domain middleware run for it did, provided the not-found   *)
(* handler of its domain, if there is one, sends a response.               *)
(***************************************************************************)
\* the path of r leads to no route of its domain for its method
NoRouteFor(r) ==
  /\ Arrived(r)
  /\ ~(req[r].def /\ req[r].rec.route # 0)
  /\ DomainOf(r).def /\ WalkOf(r).ok =>
       req[r].method \notin DOMAIN domains[DomainOf(r).node].routes[WalkOf(r).node].methods

SendsResponse(cb) ==
  \E i \in 1..Len(Script(cb)) :
    Script(cb)[i] = "send" /\ \A j \in 1..(i - 1) : Script(cb)[j] # "throw"

NotFoundSends(r) ==
  DomainOf(r).def /\ domains[DomainOf(r).node].nf # "" =>
    SendsResponse(domains[DomainOf(r).node].nf)

\* the server function of r is over and no file read of r is under way
ServerDone(r) == srv[r].pc \in {"end", "crashed"} /\ ~srv[r].again

C39_UnmatchedAnswered ==
  \A r \in Requests :
    NoRouteFor(r) /\ NotFoundSends(r) /\ ServerDone(r) => resp[r].headersSent

====
